---- MODULE Spec2Model ----
(***************************************************************************)
(* The multi-architecture manifest aggregator (group_manifests) run        *)
(* against the v2 registry protocol double of                              *)
(* tests/plugins/test_group_manifests.py.                                  *)
(*                                                                         *)
(* The registry (MockRegistry, mock_registries, the test parameters) is    *)
(* translated from the test module.  The aggregator itself and its         *)
(* registry client are not part of the sources at hand; their steps follow *)
(* sections 4.2-4.4 and 5 of the specification.                            *)
(***************************************************************************)
EXTENDS Integers, Sequences, FiniteSets, TLC

VARIABLES
    repos,          \* MockRegistry.repos of every mocked registry host
    group,          \* plugin argument 'group'
    schema_version, \* test parameter: 'v2' or 'oci'
    foreign_layers, \* test parameter: manifests carry a foreign layer
    registries,     \* the configured destination registries (registry_conf)
    workers,        \* test parameter: platform -> registries the worker pushed to
    worker_repo,    \* repository the workers pushed to
    annotations,    \* annotations['worker-builds'] as mock_registries returns it
    phase,          \* state of the aggregator's state machine
    sources,        \* registry -> platform -> Source Location
    w,              \* per destination registry: the replication worker
    error,          \* the fatal condition of the run, or NoError
    result,         \* the Aggregation Result, or NoResult
    calls,          \* registry calls the aggregator has issued
    altered,        \* registries that answered a fetch with altered bytes
    refused,        \* blob mounts a registry has refused
    request,        \* Registry Client: the call in progress, or NoRequest
    attempts,       \* Registry Client: status of every attempt of that call
    outcome,        \* Registry Client: "pending", "ok" or the typed condition
    clock,          \* ODCS: time.time(), in seconds
    odcs,           \* ODCS: the ODCSClient and its wait_for_compose call
    caller,         \* ODCS: the caller that waits for a compose and cancels
    intent,         \* test_resolve_composes: one signing-intent test case
    command,        \* dock/util.py: one wait_for_command call
    workflow,       \* post_compress: the workflow a CompressPlugin runs in
    imagename,      \* dock/util.py: one ImageName being parsed and printed
    run,            \* number of the current invocation
    prev            \* outcome of the previous invocation (repos, phase)

cfgvars == <<group, schema_version, foreign_layers, registries, workers,
             worker_repo, annotations>>
vars == <<repos, group, schema_version, foreign_layers, registries, workers,
          worker_repo, annotations, phase, sources, w, error, result, calls,
          altered, refused, run, prev, request, attempts, outcome,
          clock, odcs, caller, intent, command, workflow, imagename>>

\* state of the Registry Client when a single call is followed
clientvars == <<request, attempts, outcome>>

\* state of utils/odcs.py and of its caller
odcsvars == <<clock, odcs, caller>>

\* state that belongs neither to the aggregator nor to the Registry Client
beyond == <<odcsvars, intent, command, workflow, imagename>>

\* what each of those programs leaves alone
not_odcs == <<intent, command, workflow, imagename>>
not_intent == <<odcsvars, command, workflow, imagename>>
not_command == <<odcsvars, intent, workflow, imagename>>
not_workflow == <<odcsvars, intent, command, imagename>>
not_image == <<odcsvars, intent, command, workflow>>

\* state that belongs to other programs than the aggregator
outside == <<clientvars, beyond>>

\* state of the aggregator and its registries
aggvars == <<repos, group, schema_version, foreign_layers, registries, workers,
             worker_repo, annotations, phase, sources, w, error, result, calls,
             altered, refused, run, prev>>

\* ------------------------------------------------------------------ bounds

\* number of invocations of the aggregator on the same inputs
MaxRuns == 2

\* largest number of images exported before the compress plugin runs
MaxExported == 2

\* longest stream of log items a generator yields
MaxItems == 3

\* number of times the Registry Client repeats a call after its first attempt
MaxRetries == 2

\* ------------------------------------------------------- test parameters

REGISTRY_V2 == "registry_v2.example.com"
OTHER_V2 == "registry.example.com:5001"

\* the 'registries' columns of the parametrization
RegistrySets == {{REGISTRY_V2}, {REGISTRY_V2, OTHER_V2}}

\* mutant: the table maps both platforms to one architecture name
goarch_same == [ppc64le |-> "amd64", x86_64 |-> "amd64"]

\* mutant: the table has an entry for one more platform
goarch_with_s390x == [ppc64le |-> "powerpc", x86_64 |-> "amd64", s390x |-> "s390x"]

\* platform -> registry architecture name
goarch == [ppc64le |-> "powerpc", x86_64 |-> "amd64"]

Platforms == DOMAIN goarch

\* a platform the workers may build for that the table has no entry for
UnmappedPlatform == "s390x"

\* the platforms worker builds are recorded for
BuildPlatforms == {"ppc64le", "x86_64", UnmappedPlatform}

\* repositories of the 'workers' columns
WorkerRepos == {"namespace/httpd", "worker-build"}

Repositories == WorkerRepos

WorkerTag(platform) ==
    [ppc64le |-> "worker-build-ppc64le-latest",
     x86_64 |-> "worker-build-x86_64-latest",
     s390x |-> "worker-build-s390x-latest"][platform]

\* test_images, as (repository, tag)
test_images ==
    << [repo |-> "namespace/httpd", tag |-> "2.4"],
       [repo |-> "namespace/httpd", tag |-> "latest"] >>

MEDIA_TYPE_DOCKER_V2_SCHEMA2 == "application/vnd.docker.distribution.manifest.v2+json"
MEDIA_TYPE_DOCKER_V2_MANIFEST_LIST == "application/vnd.docker.distribution.manifest.list.v2+json"
MEDIA_TYPE_OCI_V1 == "application/vnd.oci.image.manifest.v1+json"
MEDIA_TYPE_OCI_V1_INDEX == "application/vnd.oci.image.index.v1+json"

\* (manifest_type, list_type) per schema version
MediaTypes ==
    [v2 |-> [manifest |-> MEDIA_TYPE_DOCKER_V2_SCHEMA2,
             list |-> MEDIA_TYPE_DOCKER_V2_MANIFEST_LIST],
     oci |-> [manifest |-> MEDIA_TYPE_OCI_V1,
              list |-> MEDIA_TYPE_OCI_V1_INDEX]]

ForeignLayerTypes ==
    {"application/vnd.docker.image.rootfs.foreign.diff.tar.gzip",
     "application/vnd.oci.image.layer.nondistributable.v1.tar"}

\* ------------------------------------------------------ content and digests

\* A text as its code points, for the comparisons Python makes on str.
Spell(s) ==
    CASE s = "amd64" -> <<97, 109, 100, 54, 52>>
      [] s = "powerpc" -> <<112, 111, 119, 101, 114, 112, 99>>
      [] s = "ppc64le" -> <<112, 112, 99, 54, 52, 108, 101>>
      [] s = "x86_64" -> <<120, 56, 54, 95, 54, 52>>
      [] s = "s390x" -> <<115, 51, 57, 48, 120>>

RECURSIVE SeqLess(_, _)
SeqLess(a, b) ==
    IF a = <<>> THEN b # <<>>
    ELSE IF b = <<>> THEN FALSE
    ELSE IF Head(a) # Head(b) THEN Head(a) < Head(b)
    ELSE SeqLess(Tail(a), Tail(b))

\* s < t on str
StrLess(s, t) == SeqLess(Spell(s), Spell(t))

\* sha256sum(..., abbrev_len=10, prefix=True): the identity of a payload,
\* a function of its exact bytes and of nothing else.
make_digest(bytes) == <<"sha256", bytes>>

\* A manifest reference of a URL: a tag <<"tag", t>> or a digest <<"sha256", b>>.
TagRef(tag) == <<"tag", tag>>

\* ref.startswith('sha256:')
startswith_sha256(ref) == ref[1] = "sha256"

\* 'layer-' + platform, 'config-' + platform, 'foreign-layer-' + platform
Text(prefix, platform) == [text |-> prefix, platform |-> platform]

\* to_bytes(json.dumps(doc)): the default serialization of a document
json_dumps(doc) == [json |-> doc, style |-> "dumps"]

\* json.dumps(doc, indent=4, sort_keys=True, separators=(',', ': '))
json_dumps_canonical(doc) == [json |-> doc, style |-> "indent4_sort_keys"]

\* json.loads(to_text(bytes))
json_loads(bytes) == bytes.json

\* len(bytes), counted in descriptors of the document
ContentLength(bytes) ==
    IF "layers" \in DOMAIN bytes.json THEN 1 + Len(bytes.json.layers)
    ELSE IF "manifests" \in DOMAIN bytes.json THEN Len(bytes.json.manifests)
    ELSE 0

\* mutant: the foreign layer carries the media type of an ordinary layer
WorkerManifest_mistyped(platform, version, foreign) ==
    LET layer == [mediaType |-> IF version = "v2"
                                THEN "application/vnd.docker.image.rootfs.diff.tar.gzip"
                                ELSE "application/vnd.oci.image.layer.v1.tar",
                  digest |-> make_digest(Text("layer-", platform))]
        foreign_layer ==
                 [layer EXCEPT !.digest = make_digest(Text("foreign-layer-", platform))]
    IN  [schemaVersion |-> 2,
         mediaType |-> MediaTypes[version].manifest,
         config |-> [mediaType |-> IF version = "v2"
                                   THEN "application/vnd.docker.container.image.v1+json"
                                   ELSE "application/vnd.oci.image.config.v1+json",
                     digest |-> make_digest(Text("config-", platform))],
         layers |-> IF foreign THEN <<layer, foreign_layer>> ELSE <<layer>>]

\* mutant: the pushed manifest is a Docker v2 manifest whatever the version
WorkerManifest_docker_only(platform, version, foreign) ==
    [schemaVersion |-> 2,
     mediaType |-> MEDIA_TYPE_DOCKER_V2_SCHEMA2,
     config |-> [mediaType |-> "application/vnd.docker.container.image.v1+json",
                 digest |-> make_digest(Text("config-", platform))],
     layers |-> << [mediaType |-> "application/vnd.docker.image.rootfs.diff.tar.gzip",
                    digest |-> make_digest(Text("layer-", platform))] >>]

\* the manifest mock_registries pushes for a platform
WorkerManifest(platform, version, foreign) ==
    LET layer == [mediaType |-> IF version = "v2"
                                THEN "application/vnd.docker.image.rootfs.diff.tar.gzip"
                                ELSE "application/vnd.oci.image.layer.v1.tar",
                  digest |-> make_digest(Text("layer-", platform))]
        foreign_layer ==
                 [mediaType |-> IF version = "v2"
                                THEN "application/vnd.docker.image.rootfs.foreign.diff.tar.gzip"
                                ELSE "application/vnd.oci.image.layer.nondistributable.v1.tar",
                  digest |-> make_digest(Text("foreign-layer-", platform)),
                  urls |-> <<"https://example.com/example-layer">>]
    IN  [schemaVersion |-> 2,
         mediaType |-> MediaTypes[version].manifest,
         config |-> [mediaType |-> IF version = "v2"
                                   THEN "application/vnd.docker.container.image.v1+json"
                                   ELSE "application/vnd.oci.image.config.v1+json",
                     digest |-> make_digest(Text("config-", platform))],
         layers |-> IF foreign THEN <<layer, foreign_layer>> ELSE <<layer>>]

\* ------------------------------------------------------------ MockRegistry
\* The operators take and return the 'repos' dictionary of one MockRegistry.

EmptyRepo == [blobs |-> <<>>, manifests |-> <<>>, tags |-> <<>>]

\* MockRegistry.__init__: self.repos = {}; get_repo creates entries on demand
NewRegistry == [name \in Repositories |-> EmptyRepo]

get_repo(rr, name) == rr[name]

add_blob(rr, name, blob) ==
    [rr EXCEPT ![name].blobs = (make_digest(blob) :> blob) @@ @]

\* mutant: a manifest put by digest is not stored
add_manifest_tags_only(rr, name, ref, manifest) ==
    LET digest == make_digest(manifest)
    IN  IF startswith_sha256(ref) THEN rr
        ELSE [rr EXCEPT ![name].manifests = (digest :> manifest) @@ @,
                        ![name].tags = (ref[2] :> digest) @@ @]

\* mutant: the manifest is stored but a tag is never bound to it
add_manifest_untagged(rr, name, ref, manifest) ==
    [rr EXCEPT ![name].manifests = (make_digest(manifest) :> manifest) @@ @]

add_manifest(rr, name, ref, manifest) ==
    LET digest == make_digest(manifest)
    IN  [rr EXCEPT ![name].manifests = (digest :> manifest) @@ @,
                   ![name].tags = IF startswith_sha256(ref) THEN @
                                  ELSE (ref[2] :> digest) @@ @]

\* the 'assert ref == digest' of add_manifest
add_manifest_asserts(ref, manifest) ==
    startswith_sha256(ref) => ref = make_digest(manifest)

NOT_FOUND == [status |-> 404]

\* GET /v2/<name>/manifests/<ref>
http_get_manifest(rr, name, ref, accepts) ==
    LET repo == get_repo(rr, name)
        known == startswith_sha256(ref) \/ ref[2] \in DOMAIN repo.tags
        digest == IF startswith_sha256(ref) THEN ref ELSE repo.tags[ref[2]]
    IN  IF ~known THEN NOT_FOUND
        ELSE IF digest \notin DOMAIN repo.manifests THEN NOT_FOUND
        ELSE LET blob == repo.manifests[digest]
                 content_type == json_loads(blob).mediaType
             IN  IF content_type \notin accepts THEN [status |-> 500]
                 ELSE [status |-> 200,
                       digest |-> digest,
                       content_type |-> content_type,
                       content_length |-> ContentLength(blob),
                       body |-> blob]

\* mutant: the probe never finds a manifest
http_head_manifest_absent(rr, name, ref, accepts) == NOT_FOUND

\* HEAD /v2/<name>/manifests/<ref>: do_it blanks the body
http_head_manifest(rr, name, ref, accepts) ==
    LET resp == http_get_manifest(rr, name, ref, accepts)
    IN  IF resp.status = 200 THEN [resp EXCEPT !.body = ""] ELSE resp

\* mutant: a tag that exists cannot be put again
http_put_manifest_immutable(rr, name, ref, body) ==
    IF "json" \notin DOMAIN body
    THEN [status |-> 400, repos |-> rr]
    ELSE IF ~startswith_sha256(ref) /\ ref[2] \in DOMAIN get_repo(rr, name).tags
    THEN [status |-> 409, repos |-> rr]
    ELSE [status |-> IF add_manifest_asserts(ref, body) THEN 200 ELSE 500,
          repos |-> add_manifest(rr, name, ref, body)]

\* PUT /v2/<name>/manifests/<ref>: the status, and the repos afterwards
http_put_manifest(rr, name, ref, body) ==
    IF "json" \notin DOMAIN body
    THEN [status |-> 400, repos |-> rr]
    ELSE [status |-> IF add_manifest_asserts(ref, body) THEN 200 ELSE 500,
          repos |-> add_manifest(rr, name, ref, body)]

\* mutant: the registry does not serve blobs
http_get_blob_absent(rr, name, digest) == NOT_FOUND

\* GET /v2/<name>/blobs/<digest>
http_get_blob(rr, name, digest) ==
    LET repo == get_repo(rr, name)
    IN  IF digest \notin DOMAIN repo.blobs THEN NOT_FOUND
        ELSE [status |-> 200, digest |-> digest, body |-> repo.blobs[digest]]

\* mutant: the mount is acknowledged but the blob is not linked
http_mount_blob_nolink(rr, target_name, digest, source_name) ==
    IF digest \in DOMAIN get_repo(rr, source_name).blobs
    THEN [status |-> 201, repos |-> rr]
    ELSE [status |-> 202, repos |-> rr]

\* mutant: the mount moves the blob out of the source repository
http_mount_blob_moves(rr, target_name, digest, source_name) ==
    IF digest \in DOMAIN get_repo(rr, source_name).blobs
    THEN LET blob == rr[source_name].blobs[digest]
             left == [d \in DOMAIN rr[source_name].blobs \ {digest} |->
                         rr[source_name].blobs[d]]
         IN  [status |-> 201,
              repos |-> [[rr EXCEPT ![source_name].blobs = left]
                            EXCEPT ![target_name].blobs = (digest :> blob) @@ @]]
    ELSE [status |-> 202, repos |-> rr]

\* POST /v2/<target_name>/blobs/uploads/?mount=<digest>&from=<source_name>
http_mount_blob(rr, target_name, digest, source_name) ==
    IF digest \in DOMAIN get_repo(rr, source_name).blobs
    THEN [status |-> 201,
          repos |-> [rr EXCEPT ![target_name].blobs =
                         (digest :> rr[source_name].blobs[digest]) @@ @]]
    ELSE [status |-> 202, repos |-> rr]

\* --------------------------------------------------------- mock_registries

\* the two entries mock_registries appends to 'digests' for a pushed tag
WorkerDigests(reg, platform, version, foreign, name) ==
    << [registry |-> reg, repository |-> name, tag |-> WorkerTag(platform),
        digest |-> make_digest(json_dumps(WorkerManifest(platform, version, foreign))),
        version |-> version],
       [registry |-> reg, repository |-> name, tag |-> WorkerTag(platform),
        digest |-> <<"not-used">>, version |-> "v1"] >>

\* what one worker leaves in one registry: both blobs, the tagged manifest
PushWorker(rr, platform, version, foreign, name) ==
    add_manifest(
        add_blob(add_blob(rr, name, Text("layer-", platform)),
                 name, Text("config-", platform)),
        name, TagRef(WorkerTag(platform)),
        json_dumps(WorkerManifest(platform, version, foreign)))

RECURSIVE PushWorkers(_, _, _, _, _, _, _)
PushWorkers(rr, reg, config, todo, version, foreign, name) ==
    IF todo = {} THEN rr
    ELSE LET platform == CHOOSE p \in todo : TRUE
             pushed == IF reg \in config[platform]
                       THEN PushWorker(rr, platform, version, foreign, name)
                       ELSE rr
         IN  PushWorkers(pushed, reg, config, todo \ {platform}, version, foreign, name)

\* reg_map: the filled MockRegistry of every configured registry
mock_registries(regs, config, version, foreign, name) ==
    [reg \in regs |->
        PushWorkers(NewRegistry, reg, config, DOMAIN config, version, foreign, name)]

RECURSIVE DigestsOf(_, _, _, _, _, _)
DigestsOf(platform, config, todo, version, foreign, name) ==
    IF todo = {} THEN <<>>
    ELSE LET reg == CHOOSE r \in todo : TRUE
         IN  (IF reg \in config[platform]
              THEN WorkerDigests(reg, platform, version, foreign, name)
              ELSE <<>>)
             \o DigestsOf(platform, config, todo \ {reg}, version, foreign, name)

\* mutant: digests are recorded for every registry, pushed to or not
worker_builds_everywhere(regs, config, version, foreign, name) ==
    [platform \in DOMAIN config |->
        [digests |-> DigestsOf(platform, [p \in DOMAIN config |-> regs], regs,
                               version, foreign, name)]]

\* mutant: every known platform gets an entry, built or not
worker_builds_all_platforms(regs, config, version, foreign, name) ==
    [platform \in Platforms |->
        [digests |-> IF platform \in DOMAIN config
                     THEN DigestsOf(platform, config, regs, version, foreign, name)
                     ELSE <<>>]]

\* annotations['worker-builds']
worker_builds(regs, config, version, foreign, name) ==
    [platform \in DOMAIN config |->
        [digests |-> DigestsOf(platform, config, regs, version, foreign, name)]]

\* ---------------------------------------------------------- mock_environment

\* '-' in ImageName.parse(image).tag
HasDash(image) == image.tag \in {WorkerTag(p) : p \in Platforms}

FloatingImage == [repo |-> "namespace/httpd", tag |-> "floating"]

\* mutant: the floating image is registered as a unique image as well
tag_conf_floating_unique ==
    [primary |-> SelectSeq(test_images, HasDash),
     unique |-> <<test_images[1], FloatingImage>>,
     floating |-> <<FloatingImage>>]

tag_conf ==
    [primary |-> SelectSeq(test_images, HasDash),
     unique |-> <<test_images[1]>>,
     floating |-> <<FloatingImage>>]

\* get_primary_images(workflow) + get_unique_images(workflow)
non_floating_images == tag_conf.primary \o tag_conf.unique

\* ---------------------------------------------------------- Registry Client
\* Section 4.2.  Each operation is one request to a MockRegistry.

NoError == [name |-> "none"]
NoBytes == [style |-> "none"]

\* the Accept header of a manifest request
manifest_media_types ==
    {MEDIA_TYPE_DOCKER_V2_SCHEMA2, MEDIA_TYPE_DOCKER_V2_MANIFEST_LIST,
     MEDIA_TYPE_OCI_V1, MEDIA_TYPE_OCI_V1_INDEX}

\* digestOf(bytes)
digestOf(bytes) == make_digest(bytes)

\* mutant: the body is taken as it comes
DigestVerified_unchecked(ref, body) == TRUE

\* the integrity check of getManifest: a body fetched by digest is re-hashed
DigestVerified(ref, body) ==
    startswith_sha256(ref) => digestOf(body) = ref

\* getManifest(ref) given the response of the registry
getManifest(resp, registry, ref) ==
    IF resp.status = 404
    THEN [err |-> [name |-> "NotFoundError", registry |-> registry]]
    ELSE IF resp.status # 200
    THEN [err |-> [name |-> "RegistryError", registry |-> registry]]
    ELSE IF ~DigestVerified(ref, resp.body)
    THEN [err |-> [name |-> "DigestMismatchError", registry |-> registry]]
    ELSE [err |-> NoError, bytes |-> resp.body,
          mediaType |-> resp.content_type, digest |-> resp.digest,
          size |-> resp.content_length]

\* headManifest(ref): whether the repository holds a manifest under ref
headManifest(rr, name, ref) ==
    LET resp == http_head_manifest(rr, name, ref, manifest_media_types)
    IN  resp.status = 200 /\ resp.digest = ref

\* putBlob(digest, bytes): direct upload into a repository
putBlob(rr, name, digest, bytes) ==
    [rr EXCEPT ![name].blobs = (digest :> bytes) @@ @]

\* no ODCSClient has been constructed
NoClient == [pc |-> "none"]

\* the caller has not asked for a compose
NoCaller == [pc |-> "none"]

\* a test case, a call or a plugin run that has not begun
NotStarted == [pc |-> "none"]

\* the other programs before they are started
Elsewhere ==
    /\ clock = 0
    /\ odcs = NoClient
    /\ caller = NoCaller
    /\ intent = NotStarted
    /\ command = NotStarted
    /\ workflow = NotStarted
    /\ imagename = NotStarted

\* no call in progress
NoRequest == [op |-> "none"]

\* the HTTP method of each operation (section 6)
Method ==
    [getManifest |-> "GET", headManifest |-> "HEAD", putManifest |-> "PUT",
     getBlob |-> "GET", headBlob |-> "HEAD", mountBlob |-> "POST",
     putBlob |-> "PUT"]

\* a write addressed by the digest of what it writes
ContentAddressed(req) == startswith_sha256(req.ref)

\* mutant: every call may be retried
Retryable_always(req) == TRUE

\* GET and HEAD freely, PUT and POST only when content-addressed
Retryable(req) ==
    Method[req.op] \in {"GET", "HEAD"} \/ ContentAddressed(req)

\* no response at all: the connection failed
ConnectionFailed == [status |-> 0]

\* mutant: a not-found response counts as transient
Transient_or_missing(status) == status = 0 \/ status = 404 \/ status \in 500..599

\* network errors and 5xx
Transient(status) == status = 0 \/ status \in 500..599

\* the typed condition a final status surfaces as
Condition(status) ==
    IF status \in 200..299 THEN "ok"
    ELSE IF status = 404 THEN "NotFoundError"
    ELSE IF status \in {401, 403} THEN "AuthenticationError"
    ELSE IF Transient(status) THEN "TransportError"
    ELSE "RegistryError"

\* --------------------------------------------------------- Content Model
\* Section 4.1.

isForeignLayer(layer) == layer.mediaType \in ForeignLayerTypes

\* parseManifest(bytes) accepts the two manifest media types
Parses(bytes) ==
    /\ "json" \in DOMAIN bytes
    /\ json_loads(bytes).mediaType \in {MEDIA_TYPE_DOCKER_V2_SCHEMA2, MEDIA_TYPE_OCI_V1}

\* the layers whose blobs are copied
CopiedLayers(layers) == SelectSeq(layers, LAMBDA l : ~isForeignLayer(l))

\* digests of the blobs a manifest needs in its repository: config, then layers
References(bytes) ==
    LET parsed == json_loads(bytes)
        layers == CopiedLayers(parsed.layers)
    IN  <<parsed.config.digest>> \o [i \in 1..Len(layers) |-> layers[i].digest]

\* -------------------------------------------------------- Platform Resolver
\* Section 4.3.

\* the table has an entry for the platform
Mapped(platform) == platform \in DOMAIN goarch

resolve(platform) == [architecture |-> goarch[platform], os |-> "linux"]

\* ---------------------------------------------------------------- Aggregator
\* Section 4.4.

\* versions whose media type the aggregator handles
SupportedVersions == {"v2", "oci"}

all_platforms == DOMAIN annotations

\* the Source Locations of a platform at a registry
Located(platform, registry) ==
    SelectSeq(annotations[platform].digests,
              LAMBDA d : d.registry = registry /\ d.version \in SupportedVersions)

\* registry -> platform -> Source Location
sort_annotations ==
    [r \in registries |->
        [p \in {q \in all_platforms : Located(q, r) # <<>>} |->
            Located(p, r)[Len(Located(p, r))]]]

missing_platforms(registry) == all_platforms \ DOMAIN sources[registry]

\* the key a manifest list is ordered by
SortKey(entry) == entry.platform.architecture

RECURSIVE Insert(_, _)
Insert(sorted, entry) ==
    IF sorted = <<>> THEN <<entry>>
    ELSE IF StrLess(SortKey(entry), SortKey(Head(sorted)))
    THEN <<entry>> \o sorted
    ELSE <<Head(sorted)>> \o Insert(Tail(sorted), entry)

RECURSIVE Sorted(_)
Sorted(entries) ==
    IF entries = <<>> THEN <<>>
    ELSE Insert(Sorted(SubSeq(entries, 1, Len(entries) - 1)), entries[Len(entries)])

\* mutant: the entries stay in the order the platforms were processed
ListOrder_unsorted(entries) == entries

\* order of the entries of a list
ListOrder(entries) == Sorted(entries)

\* the media type of the list for manifests of one family
ListType(media_type) ==
    IF media_type = MEDIA_TYPE_DOCKER_V2_SCHEMA2
    THEN MEDIA_TYPE_DOCKER_V2_MANIFEST_LIST
    ELSE MEDIA_TYPE_OCI_V1_INDEX

\* the canonical serialization of the manifest list of the given entries
build_list(entries) ==
    json_dumps_canonical(
        [schemaVersion |-> 2,
         mediaType |-> ListType(entries[1].mediaType),
         manifests |-> ListOrder(entries)])

\* the descriptor accumulated for a replicated platform
Entry(platform, fetched) ==
    [mediaType |-> fetched.mediaType,
     size |-> fetched.size,
     digest |-> fetched.digest,
     platform |-> resolve(platform)]

IdleWorker ==
    [pc |-> "idle", images |-> <<>>, todo |-> {}, platform |-> "",
     fetched |-> [err |-> NoError], refs |-> <<>>, entries |-> <<>>,
     published |-> NoBytes]

StartWorker ==
    [IdleWorker EXCEPT !.pc = "fetch", !.images = non_floating_images,
                       !.todo = all_platforms]

\* the registry whose artifact the Aggregation Result describes
primary_registry == REGISTRY_V2

Call(op, registry, name, ref) ==
    [op |-> op, registry |-> registry, repository |-> name, ref |-> ref]

\* mutant: the fatal condition of one destination stops every destination
Fail_everywhere(r, e) ==
    /\ w' = [q \in DOMAIN w |-> [w[q] EXCEPT !.pc = "failed"]]
    /\ error' = IF error = NoError THEN e ELSE error

\* mutant: a destination that meets a fatal condition never reports back
Fail_hang(r, e) ==
    /\ w' = [w EXCEPT ![r].pc = "hung"]
    /\ error' = IF error = NoError THEN e ELSE error

\* a destination abandons its writes; the run keeps its first fatal condition
Fail(r, e) ==
    /\ w' = [w EXCEPT ![r].pc = "failed"]
    /\ error' = IF error = NoError THEN e ELSE error

\* ------------------------------------------------------------------- state

InitialInputs ==
    /\ group \in BOOLEAN
    /\ schema_version \in SupportedVersions
    /\ foreign_layers \in BOOLEAN
    /\ registries \in RegistrySets
    /\ worker_repo \in WorkerRepos
    /\ workers \in UNION {[ps -> SUBSET registries] : ps \in SUBSET Platforms}

\* inputs whose worker builds include a platform outside the mapping table
BuiltInputs ==
    /\ group \in BOOLEAN
    /\ schema_version \in SupportedVersions
    /\ foreign_layers \in BOOLEAN
    /\ registries \in RegistrySets
    /\ worker_repo \in WorkerRepos
    /\ workers \in UNION {[ps -> SUBSET registries] : ps \in SUBSET BuildPlatforms}

\* the registries filled by the workers, the aggregator not yet started
FirstRun ==
    /\ repos = mock_registries(registries, workers, schema_version,
                               foreign_layers, worker_repo)
    /\ annotations = worker_builds(registries, workers, schema_version,
                                   foreign_layers, worker_repo)
    /\ phase = "collect"
    /\ sources = <<>>
    /\ w = [r \in registries |-> IdleWorker]
    /\ error = NoError
    /\ result = NoBytes
    /\ calls = {}
    /\ altered = {}
    /\ refused = {}
    /\ run = 1
    /\ prev = [phase |-> "none"]
    /\ request = NoRequest
    /\ attempts = <<>>
    /\ outcome = "none"
    /\ Elsewhere

Init == InitialInputs /\ FirstRun

InitBuilt == BuiltInputs /\ FirstRun

\* ----------------------------------------------------------------- actions

\* Step 1: collect the Source Locations
CollectSources ==
    /\ phase = "collect"
    /\ IF all_platforms = {}
       THEN /\ phase' = "failed"
            /\ error' = [name |-> "NoWorkerBuildsError"]
            /\ UNCHANGED sources
       ELSE /\ phase' = "validate"
            /\ sources' = sort_annotations
            /\ UNCHANGED error
    /\ UNCHANGED <<repos, cfgvars, outside, w, result, calls, altered, refused, run, prev>>

\* the registries that lack a Source Location for a required platform
Incomplete == {r \in registries : missing_platforms(r) # {}}

\* Step 2: every destination registry has a source for every platform
ValidateCompleteness ==
    /\ phase = "validate"
    /\ IF Incomplete # {}
       THEN LET r == CHOOSE x \in Incomplete : TRUE
            IN  /\ phase' = "failed"
                /\ error' = [name |-> "MissingPlatformsError", registry |-> r,
                             platforms |-> missing_platforms(r)]
       ELSE /\ phase' = "select"
            /\ UNCHANGED error
    /\ UNCHANGED <<repos, cfgvars, outside, sources, w, result, calls, altered, refused, run, prev>>

\* whether the sources fit the grouping mode
ModeAccepts == group \/ Cardinality(all_platforms) = 1

\* Step 3: without grouping exactly one platform is expected
SelectMode ==
    /\ phase = "select"
    /\ IF ModeAccepts
       THEN /\ phase' = "replicate"
            /\ w' = [r \in registries |-> StartWorker]
            /\ UNCHANGED error
       ELSE /\ phase' = "failed"
            /\ error' = [name |-> "AmbiguousUngroupedSourceError"]
            /\ UNCHANGED w
    /\ UNCHANGED <<repos, cfgvars, outside, sources, result, calls, altered, refused, run, prev>>

target_repo(r) == Head(w[r].images).repo

\* a response whose body is not the stored bytes
Tampered(resp) ==
    IF resp.status = 200
    THEN [resp EXCEPT !.body = [@ EXCEPT !.style = "altered"]]
    ELSE resp

\* Step 4a: fetch the manifest of one more platform from its Source Location
FetchStep(r, tampered) ==
    /\ phase = "replicate"
    /\ w[r].pc = "fetch"
    /\ \E p \in w[r].todo :
        LET src == sources[r][p]
            stored == http_get_manifest(repos[r], src.repository, src.digest,
                                        manifest_media_types)
            resp == IF tampered THEN Tampered(stored) ELSE stored
            fetched == getManifest(resp, r, src.digest)
        IN  /\ calls' = calls \cup {Call("getManifest", r, src.repository, src.digest)}
            /\ IF fetched.err # NoError
               THEN Fail(r, fetched.err)
               ELSE IF ~Parses(fetched.bytes)
               THEN Fail(r, [name |-> "MalformedManifestError", registry |-> r])
               ELSE /\ w' = [w EXCEPT ![r].platform = p, ![r].fetched = fetched,
                                      ![r].pc = "probe"]
                    /\ UNCHANGED error
    /\ altered' = IF tampered THEN altered \cup {r} ELSE altered
    /\ UNCHANGED <<repos, cfgvars, outside, phase, sources, result, refused, run, prev>>

Fetch(r) == FetchStep(r, FALSE)

FetchTampered(r) == FetchStep(r, TRUE)

\* the blobs to copy given the answer of the headManifest probe
ToCopy(present, bytes) == IF present THEN <<>> ELSE References(bytes)

\* Step 4a: probe the destination repository for the manifest
Probe(r) ==
    /\ phase = "replicate"
    /\ w[r].pc = "probe"
    /\ LET digest == w[r].fetched.digest
           present == headManifest(repos[r], target_repo(r), digest)
           refs == ToCopy(present, w[r].fetched.bytes)
       IN  /\ calls' = calls \cup {Call("headManifest", r, target_repo(r), digest)}
           /\ w' = [w EXCEPT ![r].refs = refs,
                             ![r].pc = IF refs = <<>> THEN "store" ELSE "blobs"]
    /\ UNCHANGED <<repos, cfgvars, outside, phase, sources, error, result, altered, refused, run, prev>>

\* the answer of a registry that does not link the blob: an upload is opened
MountRefused(rr) == [status |-> 202, repos |-> rr]

\* Step 4a: bring one blob into the destination repository, by mount or by copy
CopyBlobStep(r, unavailable) ==
    /\ phase = "replicate"
    /\ w[r].pc = "blobs"
    /\ LET digest == Head(w[r].refs)
           source_repo == sources[r][w[r].platform].repository
           mount == IF unavailable THEN MountRefused(repos[r])
                    ELSE http_mount_blob(repos[r], target_repo(r), digest, source_repo)
           blob == http_get_blob(repos[r], source_repo, digest)
           rest == Tail(w[r].refs)
           next == [w EXCEPT ![r].refs = rest,
                             ![r].pc = IF rest = <<>> THEN "store" ELSE "blobs"]
       IN  IF mount.status = 201
           THEN /\ repos' = [repos EXCEPT ![r] = mount.repos]
                /\ calls' = calls \cup {Call("mountBlob", r, target_repo(r), digest)}
                /\ w' = next
                /\ UNCHANGED <<error, refused>>
           ELSE /\ calls' = calls \cup {Call("mountBlob", r, target_repo(r), digest),
                                        Call("getBlob", r, source_repo, digest)}
                                  \cup IF blob.status = 200
                                       THEN {Call("putBlob", r, target_repo(r), digest)}
                                       ELSE {}
                /\ refused' = refused \cup {Call("mountBlob", r, target_repo(r), digest)}
                /\ IF blob.status = 200
                   THEN /\ repos' = [repos EXCEPT ![r] =
                                       putBlob(mount.repos, target_repo(r), digest, blob.body)]
                        /\ w' = next
                        /\ UNCHANGED error
                   ELSE /\ repos' = [repos EXCEPT ![r] = mount.repos]
                        /\ Fail(r, [name |-> "NotFoundError", registry |-> r])
    /\ UNCHANGED <<cfgvars, outside, phase, sources, result, altered, run, prev>>

CopyBlob(r) == CopyBlobStep(r, FALSE)

CopyBlobRefused(r) == CopyBlobStep(r, TRUE)

\* the bytes written for a fetched manifest
StoredBytes(fetched) == fetched.bytes

\* Steps 4b and 4c: store the manifest in the destination repository under its
\* digest; with grouping, resolve the platform and accumulate the list entry
StoreManifest(r) ==
    /\ phase = "replicate"
    /\ w[r].pc = "store"
    /\ LET p == w[r].platform
           fetched == w[r].fetched
           put == http_put_manifest(repos[r], target_repo(r), fetched.digest,
                                    StoredBytes(fetched))
           todo == w[r].todo \ {p}
       IN  /\ repos' = [repos EXCEPT ![r] = put.repos]
           /\ calls' = calls \cup {Call("putManifest", r, target_repo(r), fetched.digest)}
           /\ IF put.status # 200
              THEN Fail(r, [name |-> "DigestMismatchError", registry |-> r])
              ELSE IF group /\ ~Mapped(p)
              THEN Fail(r, [name |-> "UnknownPlatformError", registry |-> r,
                            platform |-> p])
              ELSE /\ w' = [w EXCEPT ![r].todo = todo,
                                     ![r].entries = IF group
                                                    THEN Append(@, Entry(p, fetched))
                                                    ELSE @,
                                     ![r].pc = IF todo = {} THEN "publish" ELSE "fetch"]
                   /\ UNCHANGED error
    /\ UNCHANGED <<cfgvars, outside, phase, sources, result, altered, refused, run, prev>>

\* what is put under a final tag: the list, or the single manifest
Artifact(r) ==
    IF group
    THEN [bytes |-> build_list(w[r].entries),
          mediaType |-> ListType(w[r].entries[1].mediaType)]
    ELSE [bytes |-> w[r].fetched.bytes, mediaType |-> w[r].fetched.mediaType]

\* Steps 4c and 4d: publish under the next final tag
Publish(r) ==
    /\ phase = "replicate"
    /\ w[r].pc = "publish"
    /\ LET image == Head(w[r].images)
           artifact == Artifact(r)
           put == http_put_manifest(repos[r], image.repo, TagRef(image.tag),
                                    artifact.bytes)
           rest == Tail(w[r].images)
       IN  /\ repos' = [repos EXCEPT ![r] = put.repos]
           /\ calls' = calls \cup {Call("putManifest", r, image.repo, TagRef(image.tag))}
           /\ IF put.status # 200
              THEN Fail(r, [name |-> "RegistryError", registry |-> r])
              ELSE /\ w' = [w EXCEPT
                              ![r].images = rest,
                              ![r].published =
                                  [digest |-> digestOf(artifact.bytes),
                                   mediaType |-> artifact.mediaType,
                                   bytes |-> artifact.bytes],
                              ![r].todo = IF rest = <<>> THEN {} ELSE all_platforms,
                              ![r].entries = IF rest = <<>> THEN @ ELSE <<>>,
                              ![r].pc = IF rest = <<>> THEN "done" ELSE "fetch"]
                   /\ UNCHANGED error
    /\ UNCHANGED <<cfgvars, outside, phase, sources, result, altered, refused, run, prev>>

\* Step 5: every destination has ended; return the primary destination's result
Return ==
    /\ phase = "replicate"
    /\ \A r \in registries : w[r].pc \in {"done", "failed"}
    /\ IF \E r \in registries : w[r].pc = "failed"
       THEN /\ phase' = "failed"
            /\ UNCHANGED result
       ELSE /\ phase' = "returned"
            /\ result' = w[primary_registry].published
    /\ UNCHANGED <<repos, cfgvars, outside, sources, w, error, calls, altered, refused, run, prev>>

Terminated == phase \in {"returned", "failed"}

\* the aggregator is invoked again on the same inputs
Rerun ==
    /\ Terminated
    /\ run < MaxRuns
    /\ run' = run + 1
    /\ prev' = [phase |-> phase, repos |-> repos, error |-> error, result |-> result]
    /\ phase' = "collect"
    /\ sources' = <<>>
    /\ w' = [r \in registries |-> IdleWorker]
    /\ error' = NoError
    /\ result' = NoBytes
    /\ altered' = {}
    /\ refused' = {}
    /\ UNCHANGED <<repos, cfgvars, outside, calls>>

\* one step of an invocation
Step ==
    \/ CollectSources
    \/ ValidateCompleteness
    \/ SelectMode
    \/ \E r \in registries : Fetch(r)
    \/ \E r \in registries : Probe(r)
    \/ \E r \in registries : CopyBlob(r)
    \/ \E r \in registries : StoreManifest(r)
    \/ \E r \in registries : Publish(r)
    \/ Return

Next ==
    \/ Step
    \/ Rerun

Spec == Init /\ [][Next]_vars

\* one invocation in which a registry may answer a fetch with bytes other
\* than the stored ones
NextTamper ==
    \/ Step
    \/ \E r \in registries : FetchTampered(r)

SpecTamper == Init /\ [][NextTamper]_vars

\* one invocation in which a registry may refuse to mount a blob
NextMount ==
    \/ Step
    \/ \E r \in registries : CopyBlobRefused(r)

SpecMount == Init /\ [][NextMount]_vars

\* one invocation on worker builds that may include an unmapped platform
SpecBuilt == InitBuilt /\ [][Step]_vars

\* ------------------------------------------------- one Registry Client call

\* one worker has pushed one platform to one registry
ClientInputs ==
    /\ group = TRUE
    /\ schema_version = "v2"
    /\ foreign_layers = FALSE
    /\ registries = {REGISTRY_V2}
    /\ worker_repo = "worker-build"
    /\ workers = [p \in {"ppc64le"} |-> {REGISTRY_V2}]

\* the manifest a putManifest call sends
ClientBody == json_dumps(WorkerManifest("ppc64le", "v2", FALSE))

\* the references manifest calls are made with: a tag that exists in the
\* workers' repository, a tag that exists nowhere, the digest of the manifest
ManifestRefs ==
    {TagRef(WorkerTag("ppc64le")), TagRef("2.4"), make_digest(ClientBody)}

BlobRefs == {make_digest(Text("config-", "ppc64le"))}

\* the calls a client may be asked to make
ClientRequests ==
    {Call(op, REGISTRY_V2, name, ref) :
        op \in {"getManifest", "headManifest", "putManifest"},
        name \in Repositories, ref \in ManifestRefs}
    \cup
    {Call(op, REGISTRY_V2, name, ref) :
        op \in {"getBlob", "headBlob", "mountBlob"},
        name \in Repositories, ref \in BlobRefs}

\* what the registry itself answers to a call, and its repositories afterwards
RegistryAnswer(rr, req) ==
    CASE req.op = "getManifest" ->
            [status |-> http_get_manifest(rr, req.repository, req.ref,
                                          manifest_media_types).status,
             repos |-> rr]
      [] req.op = "headManifest" ->
            [status |-> http_head_manifest(rr, req.repository, req.ref,
                                           manifest_media_types).status,
             repos |-> rr]
      [] req.op = "putManifest" ->
            http_put_manifest(rr, req.repository, req.ref, ClientBody)
      [] req.op \in {"getBlob", "headBlob"} ->
            [status |-> http_get_blob(rr, req.repository, req.ref).status,
             repos |-> rr]
      [] req.op = "mountBlob" ->
            http_mount_blob(rr, req.repository, req.ref,
                            CHOOSE name \in Repositories : name # req.repository)

\* the client is asked to make a call
ClientIssue ==
    /\ outcome # "pending"
    /\ \E req \in ClientRequests : request' = req
    /\ attempts' = <<>>
    /\ outcome' = "pending"
    /\ UNCHANGED <<aggvars, beyond>>

\* one attempt of the call: the registry answers, or refuses the credentials,
\* or is unavailable, or cannot be reached; a transient failure of a retryable
\* call is retried while retries are left, anything else ends the call
ClientAttempt ==
    /\ outcome = "pending"
    /\ \E answer \in {"registry", "unauthorized", "unavailable", "connection"} :
        LET r == request.registry
            resp == CASE answer = "registry" -> RegistryAnswer(repos[r], request)
                      [] answer = "unauthorized" -> [status |-> 401, repos |-> repos[r]]
                      [] answer = "unavailable" -> [status |-> 503, repos |-> repos[r]]
                      [] answer = "connection" ->
                            [status |-> ConnectionFailed.status, repos |-> repos[r]]
            tried == Append(attempts, resp.status)
        IN  /\ attempts' = tried
            /\ repos' = [repos EXCEPT ![r] = resp.repos]
            /\ outcome' = IF /\ Transient(resp.status)
                             /\ Retryable(request)
                             /\ Len(tried) <= MaxRetries
                          THEN "pending"
                          ELSE Condition(resp.status)
    /\ UNCHANGED <<cfgvars, phase, sources, w, error, result, calls, altered,
                   refused, run, prev, request, beyond>>

InitClient == ClientInputs /\ FirstRun

NextClient ==
    \/ ClientIssue
    \/ ClientAttempt

\* calls of one Registry Client against a registry that may fail
SpecClient == InitClient /\ [][NextClient]_vars

\* ------------------------------------------------------------ utils/odcs.py

\* longest timeout an ODCSClient is constructed with, in seconds
MaxTimeout == 45

DEFAULT_WAIT_TIMEOUT == 3600

\* the 'timeout' argument of ODCSClient: None, or a number of seconds
Timeouts == {<<>>, <<0>>, <<MaxTimeout>>}

\* default arguments of wait_for_compose
burst_retry == 1
burst_length == 30
slow_retry == 10

ODCS_COMPOSE_ID == 84

\* the composes that are still in 'wait' when the caller gives up: the one it
\* waited for and the renewed parent compose 15
in_progress == {ODCS_COMPOSE_ID, 15}

\* state_name values a poll may report
StateNames == {"wait", "generating", "failed", "done", "removed"}

\* seconds a request may take, and seconds a sleep may overrun
Delays == {0, 1}

\* mutant: the timeout is reached as soon as it has elapsed
TimedOut_at(elapsed, timeout) == elapsed >= timeout

\* 'elapsed > self.timeout'
TimedOut(elapsed, timeout) == elapsed > timeout

\* mutant: the loop polls without sleeping
SleepInterval_none(elapsed) == 0

\* the sleep before the next poll
SleepInterval(elapsed) ==
    IF elapsed > burst_length THEN slow_retry ELSE burst_retry

\* mutant: only an error status is caught
Caught_status_only(exc) == exc = "HTTPError"

\* 'except Exception' of cancel_compose
Caught(exc) == exc \in {"HTTPError", "ConnectionError"}

\* ODCSClient.__init__
ODCSClient_init ==
    /\ odcs = NoClient
    /\ \E timeout \in Timeouts :
         odcs' = [pc |-> "idle",
                  timeout |-> IF timeout = <<>> THEN DEFAULT_WAIT_TIMEOUT
                              ELSE timeout[1],
                  start_time |-> 0, state_name |-> "", elapsed |-> 0,
                  interval |-> 0, exc |-> "none"]
    /\ UNCHANGED <<aggvars, clientvars, clock, caller, not_odcs>>

\* the caller asks for ODCS_COMPOSE_ID to finish: wait_for_compose up to the loop
wait_for_compose ==
    /\ odcs.pc = "idle"
    /\ caller = NoCaller
    /\ odcs' = [odcs EXCEPT !.pc = "get", !.start_time = clock]
    /\ caller' = [pc |-> "waiting", in_progress |-> in_progress,
                  warned |-> {}, failed |-> {}, error |-> "none"]
    /\ UNCHANGED <<aggvars, clientvars, clock, not_odcs>>

\* one iteration of the loop up to its sleep: the GET, raise_for_status, the
\* tests of state_name and of the elapsed time
Poll ==
    /\ odcs.pc = "get"
    /\ \E d \in Delays, answer \in StateNames \cup {"HTTPError"} :
        LET elapsed == (clock + d) - odcs.start_time
        IN  /\ clock' = clock + d
            /\ odcs' =
                 IF answer = "HTTPError"
                 THEN [odcs EXCEPT !.pc = "raised", !.exc = "HTTPError",
                                   !.state_name = ""]
                 ELSE IF answer = "failed"
                 THEN [odcs EXCEPT !.pc = "raised", !.exc = "RuntimeError",
                                   !.state_name = answer]
                 ELSE IF answer \notin {"wait", "generating"}
                 THEN [odcs EXCEPT !.pc = "returned", !.state_name = answer]
                 ELSE IF TimedOut(elapsed, odcs.timeout)
                 THEN [odcs EXCEPT !.pc = "raised", !.state_name = answer,
                                   !.elapsed = elapsed,
                                   !.exc = "WaitComposeToFinishTimeout"]
                 ELSE [odcs EXCEPT !.pc = "sleep", !.state_name = answer,
                                   !.elapsed = elapsed,
                                   !.interval = SleepInterval(elapsed)]
    /\ UNCHANGED <<aggvars, clientvars, caller, not_odcs>>

\* time.sleep(interval)
Sleep ==
    /\ odcs.pc = "sleep"
    /\ \E d \in Delays : clock' = clock + odcs.interval + d
    /\ odcs' = [odcs EXCEPT !.pc = "get"]
    /\ UNCHANGED <<aggvars, clientvars, caller, not_odcs>>

\* the caller receives the outcome of wait_for_compose
Waited ==
    /\ caller.pc = "waiting"
    /\ odcs.pc \in {"returned", "raised"}
    /\ caller' =
         IF odcs.pc = "returned"
         THEN [caller EXCEPT !.pc = "done"]
         ELSE IF odcs.exc = "WaitComposeToFinishTimeout"
         THEN [caller EXCEPT !.pc = "cancelling", !.error = odcs.exc]
         ELSE [caller EXCEPT !.pc = "failed", !.error = odcs.exc]
    /\ UNCHANGED <<aggvars, clientvars, clock, odcs, not_odcs>>

\* cancel_compose(compose_id) for one compose still in progress
cancel_compose ==
    /\ caller.pc = "cancelling"
    /\ \E compose_id \in caller.in_progress,
          exc \in {"none", "HTTPError", "ConnectionError"} :
         caller' =
           IF exc = "none"
           THEN [caller EXCEPT !.in_progress = @ \ {compose_id}]
           ELSE IF Caught(exc)
           THEN [caller EXCEPT !.in_progress = @ \ {compose_id},
                               !.failed = @ \cup {compose_id},
                               !.warned = @ \cup {compose_id}]
           ELSE [caller EXCEPT !.pc = "failed", !.error = exc,
                               !.failed = @ \cup {compose_id}]
    /\ UNCHANGED <<aggvars, clientvars, clock, odcs, not_odcs>>

\* every compose was cancelled: the caller reports the timeout
Report ==
    /\ caller.pc = "cancelling"
    /\ caller.in_progress = {}
    /\ caller' = [caller EXCEPT !.pc = "failed"]
    /\ UNCHANGED <<aggvars, clientvars, clock, odcs, not_odcs>>

InitOdcs == ClientInputs /\ FirstRun

NextOdcs ==
    \/ ODCSClient_init
    \/ wait_for_compose
    \/ Poll
    \/ Sleep
    \/ Waited
    \/ cancel_compose
    \/ Report

\* one wait for a compose, and the cancellations after a timeout
SpecOdcs == InitOdcs /\ [][NextOdcs]_vars

\* every request returns and every sleep ends
SpecOdcsFair == SpecOdcs /\ WF_vars(NextOdcs)

\* ------------------------------------------- tests/plugins/test_resolve_composes.py

None == "None"

\* intent name -> signing keys
SIGNING_INTENTS ==
    [release |-> {"R123"}, beta |-> {"R123", "B456", "B457"}, unsigned |-> {}]

DEFAULT_SIGNING_INTENT == "release"

\* parametrization of test_adjust_signing_intent:
\* (default_si, config_si, arg_si, parent_si, expected_si, overridden)
adjust_signing_intent_cases ==
    << <<"release", None, None, "beta", "beta", TRUE>>,
       <<"beta", None, None, "unsigned", "unsigned", TRUE>>,
       <<"release", "release", None, "beta", "beta", TRUE>>,
       <<"release", "beta", None, "unsigned", "unsigned", TRUE>>,
       <<"release", "beta", None, "release", "beta", FALSE>>,
       <<"release", "beta", "beta", "release", "beta", FALSE>>,
       <<"release", "release", "beta", "release", "beta", TRUE>>,
       <<"release", "release", "beta", None, "beta", TRUE>>,
       <<"release", "beta", "release", "release", "release", TRUE>>,
       <<"release", "beta", "release", None, "release", TRUE>>,
       <<"beta", "beta", "release", "unsigned", "unsigned", TRUE>>,
       <<"beta", "beta", "release", "beta", "beta", FALSE>>,
       <<"release", "beta", "beta", "unsigned", "unsigned", TRUE>>,
       <<"release", "unsigned", None, None, "unsigned", FALSE>>,
       <<"unsigned", "release", None, None, "release", FALSE>>,
       <<"release", None, None, None, "release", FALSE>>,
       <<"beta", None, None, None, "beta", FALSE>>,
       <<"unsigned", None, None, None, "unsigned", FALSE>> >>

\* parametrization of test_signing_intent_multiple_composes:
\* (composes_intent, expected_intent)
multiple_composes_cases ==
    << << <<"release", "beta">>, "beta" >>,
       << <<"beta", "release">>, "beta" >>,
       << <<"release", "release">>, "release" >>,
       << <<"unsigned", "release">>, "unsigned" >> >>

\* mutant: the result follows the parent's signing intent
expected_si_parent(case) == IF case[4] # None THEN case[4] ELSE case[5]

\* the signing_intent the plugin result is asserted to carry
expected_si(case) == case[5]

\* a test case before its set-up
NewCase(test, k, swap) ==
    [pc |-> "reactor_config", test |-> test, case |-> k, use_compose_id |-> swap,
     default_si |-> DEFAULT_SIGNING_INTENT, config_si |-> None, arg_si |-> None,
     parent_si |-> None, composes |-> <<>>, result |-> None]

\* one case of test_adjust_signing_intent begins
test_adjust_signing_intent ==
    /\ intent = NotStarted
    /\ \E k \in 1..Len(adjust_signing_intent_cases), use_compose_id \in BOOLEAN :
         intent' = NewCase("adjust", k, use_compose_id)
    /\ UNCHANGED <<aggvars, clientvars, not_intent>>

\* make_reactor_config(default_si=default_si)
set_reactor_config ==
    /\ intent.pc = "reactor_config"
    /\ intent' = [intent EXCEPT !.pc = "repo_config",
                    !.default_si = adjust_signing_intent_cases[intent.case][1]]
    /\ UNCHANGED <<aggvars, clientvars, not_intent>>

\* mock_repo_config(signing_intent=config_si)
mock_repo_config ==
    /\ intent.pc = "repo_config"
    /\ intent' = [intent EXCEPT !.pc = "arguments",
                    !.config_si = adjust_signing_intent_cases[intent.case][2]]
    /\ UNCHANGED <<aggvars, clientvars, not_intent>>

\* the plugin arguments: signing_intent, or with use_compose_id a pre-existing
\* compose that carries the keys of that intent
set_plugin_args ==
    /\ intent.pc = "arguments"
    /\ LET arg_si == adjust_signing_intent_cases[intent.case][3]
       IN  intent' = IF intent.use_compose_id /\ arg_si # None
                     THEN [intent EXCEPT !.pc = "parent",
                                         !.composes = <<SIGNING_INTENTS[arg_si]>>]
                     ELSE [intent EXCEPT !.pc = "parent", !.arg_si = arg_si]
    /\ UNCHANGED <<aggvars, clientvars, not_intent>>

\* the koji parent result: the parent build with or without a signing intent
set_plugin_result ==
    /\ intent.pc = "parent"
    /\ intent' = [intent EXCEPT !.pc = "run",
                    !.parent_si = adjust_signing_intent_cases[intent.case][4]]
    /\ UNCHANGED <<aggvars, clientvars, not_intent>>

\* one case of test_signing_intent_multiple_composes, set up
test_signing_intent_multiple_composes ==
    /\ intent = NotStarted
    /\ \E k \in 1..Len(multiple_composes_cases) :
         LET composes_intent == multiple_composes_cases[k][1]
         IN  intent' = [NewCase("multiple", k, TRUE) EXCEPT
                          !.pc = "run",
                          !.composes = [i \in 1..Len(composes_intent) |->
                                          SIGNING_INTENTS[composes_intent[i]]]]
    /\ UNCHANGED <<aggvars, clientvars, not_intent>>

\* run_plugin_with_args: the result the test asserts
run_plugin_with_args ==
    /\ intent.pc = "run"
    /\ intent' = [intent EXCEPT !.pc = "done",
                    !.result = IF intent.test = "adjust"
                               THEN expected_si(adjust_signing_intent_cases[intent.case])
                               ELSE multiple_composes_cases[intent.case][2]]
    /\ UNCHANGED <<aggvars, clientvars, not_intent>>

InitIntent == ClientInputs /\ FirstRun

NextIntent ==
    \/ test_adjust_signing_intent
    \/ set_reactor_config
    \/ mock_repo_config
    \/ set_plugin_args
    \/ set_plugin_result
    \/ test_signing_intent_multiple_composes
    \/ run_plugin_with_args

\* the signing-intent cases of test_resolve_composes
SpecIntent == InitIntent /\ [][NextIntent]_vars

\* ------------------------------------------------- dock/util.py: wait_for_command

\* the items a logs generator yields, as UTF-8 bytes: text that is not JSON,
\* JSON that is not an object, and JSON objects with and without an error
LogItems ==
    { [bytes |-> "Step 1 : FROM fedora", json |-> FALSE],
      [bytes |-> "[1]", json |-> TRUE, dict |-> FALSE],
      [bytes |-> "{stream: ok}", json |-> TRUE, dict |-> TRUE,
       object |-> [stream |-> "ok"]],
      [bytes |-> "{error: boom, errorDetail: detail}", json |-> TRUE, dict |-> TRUE,
       object |-> [error |-> "boom", errorDetail |-> "detail"]],
      [bytes |-> "{errorDetail: detail}", json |-> TRUE, dict |-> TRUE,
       object |-> [errorDetail |-> "detail"]],
      [bytes |-> "{error: }", json |-> TRUE, dict |-> TRUE,
       object |-> [error |-> ""]] }

\* the streams a generator may yield
LogStreams == UNION {[1..n -> LogItems] : n \in 0..MaxItems}

\* item.decode("utf-8")
decode(item) == [item EXCEPT !.bytes = <<"str", @>>]

\* json.loads succeeds and 'isinstance(parsed_item, dict)'
is_object(item) == item.json /\ item.dict

\* the parsed item of an item that is a JSON object
parsed_item(item) == item.object

\* dict.get(key, default)
get(object, key, default) ==
    IF key \in DOMAIN object THEN object[key] ELSE default

\* mutant: an item without an error leaves the error of an earlier item
item_error_sticky(previous, object) == get(object, "error", previous)

\* 'error = parsed_item.get("error", None)'
item_error(previous, object) == get(object, "error", None)

\* CommandResult.is_failed: bool(error) or bool(error_detail)
is_failed(cr) ==
    cr.error \notin {None, ""} \/ cr.error_detail \notin {None, ""}

\* wait_for_command(logs_generator) up to its loop
wait_for_command ==
    /\ command = NotStarted
    /\ \E stream \in LogStreams :
         command' = [pc |-> "loop", stream |-> stream, yielded |-> 0, logs |-> <<>>,
                     error |-> None, error_message |-> None, errors_logged |-> 0]
    /\ UNCHANGED <<aggvars, clientvars, not_command>>

\* one iteration of the loop: the generator yields an item
next_item ==
    /\ command.pc = "loop"
    /\ command.yielded < Len(command.stream)
    /\ LET item == decode(command.stream[command.yielded + 1])
           parsed == parsed_item(item)
       IN  command' =
             IF is_object(item)
             THEN [command EXCEPT !.yielded = @ + 1,
                                  !.logs = Append(@, item),
                                  !.error = item_error(@, parsed),
                                  !.error_message = get(parsed, "errorDetail", None),
                                  !.errors_logged =
                                      IF get(parsed, "error", None) \notin {None, ""}
                                      THEN @ + 1 ELSE @]
             ELSE [command EXCEPT !.yielded = @ + 1, !.logs = Append(@, item)]
    /\ UNCHANGED <<aggvars, clientvars, not_command>>

\* the generator raises StopIteration: the CommandResult is returned
StopIteration ==
    /\ command.pc = "loop"
    /\ command.yielded = Len(command.stream)
    /\ command' = [pc |-> "returned", stream |-> command.stream,
                   yielded |-> command.yielded,
                   cr |-> [logs |-> command.logs, error |-> command.error,
                           error_detail |-> command.error_message]]
    /\ UNCHANGED <<aggvars, clientvars, not_command>>

InitCommand == ClientInputs /\ FirstRun

NextCommand ==
    \/ wait_for_command
    \/ next_item
    \/ StopIteration

\* one wait_for_command call over a stream of log items
SpecCommand == InitCommand /\ [][NextCommand]_vars

\* --------------------------------------------- plugins/post_compress.py

IMAGE_TYPE_DOCKER_ARCHIVE == "docker-archive"

\* metadata of the images exported by earlier plugins
ExportedImages ==
    { [path |-> "image.tar", type |-> IMAGE_TYPE_DOCKER_ARCHIVE],
      [path |-> "oci-image.tar", type |-> "oci"] }

ExportedSequences == UNION {[1..n -> ExportedImages] : n \in 0..MaxExported}

\* the 'method' argument: the two supported methods and another one
Methods == {"gzip", "lzma", "bzip2"}

\* stream.tell() after the image was read: an empty or a non-empty image
StreamSizes == {0, 1024}

\* the file _compress_image_stream writes for a supported method
outfile(method) ==
    [gzip |-> "workdir/compressed.tar.gz", lzma |-> "workdir/compressed.tar.xz"][method]

\* get_exported_image_metadata(outfile, image_type), with the uncompressed
\* size when it is not 0
metadata(path, image_type, uncompressed_size) ==
    IF uncompressed_size # 0
    THEN [path |-> path, type |-> image_type, uncompressed_size |-> uncompressed_size]
    ELSE [path |-> path, type |-> image_type]

\* mutant: the new entry is put in front
append_first(sequence, entry) == <<entry>> \o sequence

\* exported_image_sequence.append(metadata)
append(sequence, entry) == Append(sequence, entry)

\* CompressPlugin.__init__ in a workflow some plugins have already run in
CompressPlugin_init ==
    /\ workflow = NotStarted
    /\ \E scratch \in BOOLEAN, source_docker_archive \in BOOLEAN,
          load_exported_image \in BOOLEAN, method \in Methods,
          exported \in ExportedSequences, size \in StreamSizes :
         workflow' = [pc |-> "ready", scratch |-> scratch,
                      exported_image_sequence |-> exported,
                      exported_before |-> exported,
                      load_exported_image |-> load_exported_image,
                      method |-> method,
                      source_build |-> source_docker_archive,
                      image_size |-> size,
                      uncompressed_size |-> 0,
                      exc |-> None]
    /\ UNCHANGED <<aggvars, clientvars, not_workflow>>

\* CompressPlugin.run
CompressPlugin_run ==
    /\ workflow.pc = "ready"
    /\ LET sequence == workflow.exported_image_sequence
           load == workflow.load_exported_image /\ Len(sequence) > 0
           image_type == IF load THEN sequence[Len(sequence)].type
                         ELSE IMAGE_TYPE_DOCKER_ARCHIVE
       IN  workflow' =
             IF workflow.scratch
             THEN [workflow EXCEPT !.pc = "returned"]
             ELSE IF ~load /\ workflow.source_build
             THEN [workflow EXCEPT !.pc = "returned"]
             ELSE IF workflow.method \notin {"gzip", "lzma"}
             THEN [workflow EXCEPT !.pc = "raised", !.exc = "RuntimeError"]
             ELSE [workflow EXCEPT
                     !.pc = "returned",
                     !.uncompressed_size = workflow.image_size,
                     !.exported_image_sequence =
                        append(@, metadata(outfile(workflow.method), image_type,
                                           workflow.image_size))]
    /\ UNCHANGED <<aggvars, clientvars, not_workflow>>

InitCompress == ClientInputs /\ FirstRun

NextCompress ==
    \/ CompressPlugin_init
    \/ CompressPlugin_run

\* one run of the compress plugin
SpecCompress == InitCompress /\ [][NextCompress]_vars

\* --------------------------------------------------- dock/util.py: ImageName

\* A str is the sequence of its characters; the word 'library' and a few
\* other words count as one character each.  Python's None among them:
Unset == <<None>>

\* bool(x) of a str or None
Truthy(x) == x # Unset /\ x # <<>>

\* 'c in s'
Contains(s, c) == \E i \in 1..Len(s) : s[i] = c

First(s, c) == CHOOSE i \in 1..Len(s) : s[i] = c /\ \A j \in 1..(i - 1) : s[j] # c

Last(s, c) == CHOOSE i \in 1..Len(s) : s[i] = c /\ \A j \in (i + 1)..Len(s) : s[j] # c

\* s.split('/', maxsplit)
RECURSIVE split(_, _)
split(s, maxsplit) ==
    IF maxsplit = 0 \/ ~Contains(s, "/")
    THEN <<s>>
    ELSE <<SubSeq(s, 1, First(s, "/") - 1)>>
         \o split(SubSeq(s, First(s, "/") + 1, Len(s)), maxsplit - 1)

\* s.rsplit(':', 1)
rsplit(s) ==
    IF Contains(s, ":")
    THEN <<SubSeq(s, 1, Last(s, ":") - 1), SubSeq(s, Last(s, ":") + 1, Len(s))>>
    ELSE <<s>>

\* mutant: only a dot marks a registry
is_registry_dot_only(part) == Contains(part, ".")

\* "'.' in s[0] or ':' in s[0]"
is_registry(part) == Contains(part, ".") \/ Contains(part, ":")

\* ImageName(registry, namespace, repo, tag)
ImageName(registry, namespace, repo, tag) ==
    [registry |-> registry, namespace |-> namespace, repo |-> repo, tag |-> tag]

\* ImageName.parse(image_name)
parse(image_name) ==
    LET s == split(image_name, 2)
        registry == IF Len(s) = 2 /\ is_registry(s[1]) THEN s[1]
                    ELSE IF Len(s) = 3 THEN s[1]
                    ELSE Unset
        namespace == IF Len(s) = 2 /\ ~is_registry(s[1]) THEN s[1]
                     ELSE IF Len(s) = 3 THEN s[2]
                     ELSE Unset
        repo == rsplit(s[Len(s)])
    IN  ImageName(registry,
                  IF namespace = <<"library">> THEN Unset ELSE namespace,
                  repo[1],
                  IF Len(repo) = 2 THEN repo[2] ELSE Unset)

\* the keyword arguments of to_str
Flags == [registry : BOOLEAN, tag : BOOLEAN, explicit_tag : BOOLEAN,
          explicit_namespace : BOOLEAN]

\* to_str(): registry=True, tag=True, explicit_tag=False, explicit_namespace=False
DefaultFlags == [registry |-> TRUE, tag |-> TRUE, explicit_tag |-> FALSE,
                 explicit_namespace |-> FALSE]

\* ImageName.to_str for a name that has a repo
to_str(n, flags) ==
    LET tagged == IF flags.tag /\ Truthy(n.tag) THEN n.repo \o <<":">> \o n.tag
                  ELSE IF flags.tag /\ flags.explicit_tag
                  THEN n.repo \o <<":", "latest">>
                  ELSE n.repo
        spaced == IF Truthy(n.namespace) THEN n.namespace \o <<"/">> \o tagged
                  ELSE IF flags.explicit_namespace THEN <<"library", "/">> \o tagged
                  ELSE tagged
    IN  IF flags.registry /\ Truthy(n.registry) THEN n.registry \o <<"/">> \o spaced
        ELSE spaced

\* the values the fields of an ImageName are given
Registries ==
    {Unset, <<>>, <<"localhost">>, <<"registry", ".", "org">>,
     <<"localhost", ":", "5000">>, <<"a", "/", "b">>}

Namespaces ==
    {Unset, <<>>, <<"fedora">>, <<"library">>, <<"my", ".", "org">>, <<"a", "/", "b">>}

Repos ==
    {Unset, <<>>, <<"httpd">>, <<"library">>, <<"a", "/", "b">>, <<"a", ":", "b">>}

Tags == {Unset, <<>>, <<"2.4">>, <<"a", ":", "b">>, <<"a", "/", "b">>}

\* image names given as text
ImageStrings ==
    { <<"httpd">>,
      <<"library", "/", "httpd">>,
      <<"library", "/", "httpd", ":", "2.4">>,
      <<"fedora", "/", "httpd", ":", "2.4">>,
      <<"registry", ".", "org", "/", "library", "/", "httpd">>,
      <<"registry", ".", "org", "/", "library", "/", "httpd", ":", "2.4">>,
      <<"localhost", ":", "5000", "/", "httpd">>,
      <<"localhost", "/", "library", "/", "httpd">>,
      <<"registry", ".", "org", "/", "fedora", "/", "httpd", ":", "2.4">>,
      <<"/", "library", "/", "httpd">>,
      <<"library", "/", "httpd", ":">>,
      <<"library", "/", "library">> }

\* an ImageName is constructed, to be printed and parsed back
ImageName_init ==
    /\ imagename = NotStarted
    /\ \E registry \in Registries, namespace \in Namespaces, repo \in Repos,
          tag \in Tags :
         imagename' = [pc |-> "name", origin |-> "name",
                       given |-> ImageName(registry, namespace, repo, tag),
                       name |-> ImageName(registry, namespace, repo, tag),
                       str |-> Unset, flags |-> DefaultFlags]
    /\ UNCHANGED <<aggvars, clientvars, not_image>>

\* an image name is given as text, to be parsed and printed back
ImageName_text ==
    /\ imagename = NotStarted
    /\ \E image_name \in ImageStrings :
         imagename' = [pc |-> "text", origin |-> "text", given |-> image_name,
                       name |-> ImageName(Unset, Unset, Unset, Unset),
                       str |-> image_name, flags |-> DefaultFlags]
    /\ UNCHANGED <<aggvars, clientvars, not_image>>

\* name.to_str(...)
ImageName_to_str ==
    /\ imagename.pc \in {"name", "parsed"}
    /\ \E flags \in Flags :
         imagename' =
           IF imagename.name.repo = Unset
           THEN [imagename EXCEPT !.pc = "raised", !.flags = flags]
           ELSE [imagename EXCEPT
                   !.pc = IF imagename.pc = "name" THEN "printed" ELSE "done",
                   !.flags = flags,
                   !.str = to_str(imagename.name, flags)]
    /\ UNCHANGED <<aggvars, clientvars, not_image>>

\* ImageName.parse(str)
ImageName_parse ==
    /\ imagename.pc \in {"text", "printed"}
    /\ imagename' = [imagename EXCEPT
                       !.pc = IF imagename.pc = "text" THEN "parsed" ELSE "done",
                       !.name = parse(imagename.str)]
    /\ UNCHANGED <<aggvars, clientvars, not_image>>

InitImage == ClientInputs /\ FirstRun

NextImage ==
    \/ ImageName_init
    \/ ImageName_text
    \/ ImageName_to_str
    \/ ImageName_parse

\* an ImageName printed and parsed back, and a text parsed and printed back
SpecImage == InitImage /\ [][NextImage]_vars

\* one invocation whose pending calls are eventually made: every call blocks
\* and returns, and the worker pool runs every destination that has a step left
SpecFair == Init /\ [][NextTamper]_vars /\ WF_vars(NextTamper)

\* ------------------------------------------------------------------ claims

\* the registries as mock_registries filled them, before the first run
initial_repos ==
    mock_registries(registries, workers, schema_version, foreign_layers, worker_repo)

\* the registries as the current run found them
RunStartRepos == IF run = 1 THEN initial_repos ELSE prev.repos

ListTypes == {MEDIA_TYPE_DOCKER_V2_MANIFEST_LIST, MEDIA_TYPE_OCI_V1_INDEX}

IsList(bytes) == "json" \in DOMAIN bytes /\ json_loads(bytes).mediaType \in ListTypes

\* the manifests of a repository that are manifest lists
ListsOf(repo) == {d \in DOMAIN repo.manifests : IsList(repo.manifests[d])}

\* the tags of a repository that resolve to a manifest list
ListTags(repo) == {t \in DOMAIN repo.tags : repo.tags[t] \in ListsOf(repo)}

\* a platform was pushed to a registry by its worker
Supplied(p, r) == r \in workers[p]

\* every platform has a Source Location at every destination registry
SuppliedEverywhere == \A p \in DOMAIN workers : \A r \in registries : Supplied(p, r)

WriteOps == {"putManifest", "putBlob", "mountBlob"}

\* the blobs a stored manifest needs next to it: config and non-foreign layers
NeededBlobs(bytes) ==
    LET parsed == json_loads(bytes)
    IN  {parsed.config.digest} \cup
        {parsed.layers[i].digest : i \in {j \in 1..Len(parsed.layers) :
                                         parsed.layers[j].mediaType \notin ForeignLayerTypes}}

\* config and every layer, foreign or not
AllBlobs(bytes) ==
    LET parsed == json_loads(bytes)
    IN  {parsed.config.digest} \cup
        {parsed.layers[i].digest : i \in 1..Len(parsed.layers)}

\* the source manifest of a platform as its registry holds it under the worker tag
SourceDigest(r, p) == repos[r][worker_repo].tags[WorkerTag(p)]
SourceBytes(r, p) == repos[r][worker_repo].manifests[SourceDigest(r, p)]

\* C1: a destination registry that lacks a Source Location for some required
\* platform makes the run fail with MissingPlatformsError, and from the start of
\* the run to its end that registry is left exactly as the run found it: no
\* manifest-list tag, and nothing else, is published to it.
C1_Completeness ==
    \A D \in registries :
        (\E p \in DOMAIN workers : ~Supplied(p, D)) =>
            /\ Terminated => (phase = "failed" /\ error.name = "MissingPlatformsError")
            /\ repos[D] = RunStartRepos[D]
            /\ \A name \in Repositories : ListTags(repos[D][name]) = {}

\* a run failed for a missing platform while another destination was complete
C1_Witness ==
    /\ phase = "failed"
    /\ error.name = "MissingPlatformsError"
    /\ group
    /\ \E D \in registries : \E p \in DOMAIN workers : ~Supplied(p, D)
    /\ \E D \in registries : \A p \in DOMAIN workers : Supplied(p, D)

\* C2: in every reachable state, also after a destination has failed, a tag
\* that resolves to a manifest list has every entry stored by digest in the same
\* repository, with the config blob and every non-foreign layer blob of each
\* entry's manifest in that repository's blob store.
C2_NoPartialList ==
    \A r \in registries : \A name \in Repositories :
        LET repo == repos[r][name]
        IN  \A t \in ListTags(repo) :
                LET list == json_loads(repo.manifests[repo.tags[t]])
                IN  \A i \in 1..Len(list.manifests) :
                        LET d == list.manifests[i].digest
                        IN  /\ d \in DOMAIN repo.manifests
                            /\ NeededBlobs(repo.manifests[d]) \subseteq DOMAIN repo.blobs

\* one destination failed while another holds a two-entry list whose
\* manifests and blobs had to be brought over from another repository
C2_Witness ==
    /\ worker_repo = "worker-build"
    /\ \E r \in registries : w[r].pc = "failed"
    /\ \E r \in registries :
        LET repo == repos[r]["namespace/httpd"]
        IN  /\ "2.4" \in ListTags(repo)
            /\ Len(json_loads(repo.manifests[repo.tags["2.4"]]).manifests) = 2

\* the architecture names of the entries of a list, in order
ArchList(bytes) ==
    [i \in 1..Len(json_loads(bytes).manifests) |->
        json_loads(bytes).manifests[i].platform.architecture]

\* arch_list == sorted(arch_list)
Ascending(names) ==
    \A i \in 1..Len(names) : \A j \in 1..Len(names) :
        i < j => ~StrLess(names[j], names[i])

\* C3: every manifest list stored in a registry has its entries in ascending
\* lexicographic order of the mapped architecture name, whatever the order in
\* which the platforms were processed; the order of the internal platform names
\* does not decide it.
C3_Ordering ==
    \A r \in registries : \A name \in Repositories :
        \A d \in ListsOf(repos[r][name]) :
            LET names == ArchList(repos[r][name].manifests[d])
            IN  /\ Ascending(names)
                /\ \A i \in 1..Len(names) : names[i] \in {goarch[p] : p \in Platforms}

\* a list "amd64" before "powerpc" was published although the ppc64le
\* platform, whose name sorts first, was also processed first
C3_Witness ==
    \E r \in registries :
        /\ w[r].pc = "done"
        /\ Len(w[r].entries) = 2
        /\ w[r].entries[1].platform.architecture = "powerpc"
        /\ ArchList(w[r].published.bytes) = <<"amd64", "powerpc">>
        /\ StrLess("ppc64le", "x86_64")

\* C4: after a successful grouped run every final tag resolves, at every
\* destination, to a list that has for each platform exactly one entry of the
\* mapped architecture, carrying the digest of the platform's source manifest,
\* and the destination repository holds under that digest the very bytes of
\* the source manifest.
C4_ListMatchesSources ==
    (phase = "returned" /\ group) =>
        \A r \in registries : \A k \in 1..Len(non_floating_images) :
            LET image == non_floating_images[k]
                repo == repos[r][image.repo]
            IN  /\ image.tag \in ListTags(repo)
                /\ LET list == json_loads(repo.manifests[repo.tags[image.tag]])
                   IN  \A p \in all_platforms :
                        LET descs == {i \in 1..Len(list.manifests) :
                                        list.manifests[i].platform.architecture = goarch[p]}
                        IN  /\ Cardinality(descs) = 1
                            /\ \A i \in descs :
                                /\ list.manifests[i].digest = SourceDigest(r, p)
                                /\ SourceDigest(r, p) \in DOMAIN repo.manifests
                                /\ repo.manifests[SourceDigest(r, p)] = SourceBytes(r, p)

\* a grouped run of two platforms succeeded at two destinations, the sources
\* lying in another repository than the destination
C4_Witness ==
    /\ phase = "returned"
    /\ group
    /\ Cardinality(all_platforms) = 2
    /\ Cardinality(registries) = 2
    /\ worker_repo = "worker-build"

\* C5: a run that follows a successful run on the same inputs succeeds too,
\* returns the same bytes and digest, and leaves the manifests, blobs and tag
\* bindings of every repository exactly as the earlier run left them.
C5_Idempotence ==
    (run > 1 /\ Terminated /\ prev.phase = "returned") =>
        /\ phase = "returned"
        /\ result = prev.result
        /\ result.digest = digestOf(result.bytes)
        /\ repos = prev.repos

\* a second grouped run of two platforms has ended after a successful first one
C5_Witness ==
    /\ run = 2
    /\ phase = "returned"
    /\ prev.phase = "returned"
    /\ group
    /\ IsList(result.bytes)
    /\ Len(json_loads(result.bytes).manifests) = 2
    /\ worker_repo = "worker-build"

\* digests of the layers the pushed manifests flag as foreign
ForeignDigests == {make_digest(Text("foreign-layer-", p)) : p \in Platforms}

BlobOps == {"getBlob", "headBlob", "mountBlob", "putBlob"}

\* the inputs pass the checks of steps 1 to 3
InputsConsistent ==
    /\ DOMAIN workers # {}
    /\ SuppliedEverywhere
    /\ group \/ Cardinality(DOMAIN workers) = 1

\* C6: no blob request of the aggregator ever names the digest of a foreign
\* layer, no repository ever holds a blob under such a digest, and a run on
\* consistent inputs whose manifests carry a foreign layer (a blob the source
\* repository does not have) still succeeds.
C6_ForeignLayerExclusion ==
    /\ \A c \in calls : c.op \in BlobOps => c.ref \notin ForeignDigests
    /\ \A r \in registries : \A name \in Repositories :
            DOMAIN repos[r][name].blobs \cap ForeignDigests = {}
    /\ (foreign_layers /\ InputsConsistent /\ Terminated) => phase = "returned"

\* a run whose manifests carry a foreign layer mounted blobs from another
\* repository and succeeded
C6_Witness ==
    /\ foreign_layers
    /\ phase = "returned"
    /\ worker_repo = "worker-build"
    /\ \E c \in calls : c.op = "mountBlob"
    /\ \E r \in registries : \E p \in all_platforms :
            Len(json_loads(SourceBytes(r, p)).layers) = 2

\* the worker of a destination holds a fetched manifest
HoldsManifest(r) == w[r].pc \in {"probe", "blobs", "store", "publish", "done"}

\* C7: the bytes the aggregator goes on to use after a fetch by digest hash to
\* the requested digest; a destination whose registry answered with other bytes
\* has failed with DigestMismatchError, the run fails, no manifest made of the
\* altered bytes is stored anywhere, and the tags of that destination are the
\* ones the run started with.
C7_RoundTrip ==
    /\ \A r \in registries :
            HoldsManifest(r) =>
                digestOf(w[r].fetched.bytes) = sources[r][w[r].platform].digest
    /\ \A r \in altered :
            /\ w[r].pc = "failed"
            /\ error.name = "DigestMismatchError"
            /\ Terminated => phase = "failed"
            /\ \A name \in Repositories :
                    repos[r][name].tags = RunStartRepos[r][name].tags
    /\ \A r \in registries : \A name \in Repositories :
            \A d \in DOMAIN repos[r][name].manifests :
                repos[r][name].manifests[d].style # "altered"

\* the run failed: one registry answered with altered bytes, another
\* destination completed
C7_Witness ==
    /\ phase = "failed"
    /\ error.name = "DigestMismatchError"
    /\ \E r \in altered : w[r].pc = "failed"
    /\ \E r \in registries \ altered : w[r].pc = "done"

\* C8: without any worker build the run fails with NoWorkerBuildsError, no
\* write request is issued and every repository stays as it was.
C8_NoWorkerBuilds ==
    DOMAIN workers = {} =>
        /\ Terminated => (phase = "failed" /\ error.name = "NoWorkerBuildsError")
        /\ repos = initial_repos
        /\ \A c \in calls : c.op \notin WriteOps

\* the run of an empty set of worker builds has failed
C8_Witness ==
    /\ DOMAIN workers = {}
    /\ phase = "failed"
    /\ error.name = "NoWorkerBuildsError"

\* more than one platform, each with a Source Location somewhere
SeveralSupplied ==
    /\ Cardinality(DOMAIN workers) > 1
    /\ \A p \in DOMAIN workers : workers[p] # {}

\* the tags of every repository are the ones the run started with
TagsUntouched ==
    \A r \in registries : \A name \in Repositories :
        repos[r][name].tags = RunStartRepos[r][name].tags

\* C9 as stated: without grouping, more than one supplied platform makes the
\* run fail with AmbiguousUngroupedSourceError and no tag is created or changed.
C9_Original ==
    (~group /\ SeveralSupplied) =>
        /\ Terminated => (phase = "failed" /\
                          error.name = "AmbiguousUngroupedSourceError")
        /\ TagsUntouched

\* C9 amended: without grouping, more than one supplied platform makes the run
\* fail, with AmbiguousUngroupedSourceError when every platform has a Source
\* Location at every destination registry and with MissingPlatformsError
\* otherwise, and in both cases no tag is created or changed.
C9_Amended ==
    (~group /\ SeveralSupplied) =>
        /\ Terminated =>
            /\ phase = "failed"
            /\ error.name = IF SuppliedEverywhere
                            THEN "AmbiguousUngroupedSourceError"
                            ELSE "MissingPlatformsError"
        /\ TagsUntouched

\* an ungrouped run of two platforms, complete at two registries, has failed
C9_Witness ==
    /\ ~group
    /\ SeveralSupplied
    /\ SuppliedEverywhere
    /\ Cardinality(registries) = 2
    /\ phase = "failed"
    /\ error.name = "AmbiguousUngroupedSourceError"

\* exactly one platform, with a Source Location somewhere
OneSupplied ==
    /\ Cardinality(DOMAIN workers) = 1
    /\ \A p \in DOMAIN workers : workers[p] # {}

\* no repository holds a manifest list
NoListAnywhere ==
    \A r \in registries : \A name \in Repositories : ListsOf(repos[r][name]) = {}

\* every final tag that exists resolves to the bytes of the source manifest of
\* the platform, whose blobs (all of them, or all but the foreign layers) lie
\* in the tagged repository
FinalTagsCarry(all_layers) ==
    \A r \in registries : \A k \in 1..Len(non_floating_images) :
        LET image == non_floating_images[k]
            repo == repos[r][image.repo]
        IN  image.tag \in DOMAIN repo.tags =>
                \A p \in DOMAIN workers :
                    /\ Supplied(p, r)
                    /\ repo.tags[image.tag] \in DOMAIN repo.manifests
                    /\ repo.manifests[repo.tags[image.tag]] = SourceBytes(r, p)
                    /\ (IF all_layers THEN AllBlobs(SourceBytes(r, p))
                        ELSE NeededBlobs(SourceBytes(r, p))) \subseteq DOMAIN repo.blobs

\* C10 as stated: without grouping, exactly one supplied platform makes the
\* run succeed; no list is published, and every final tag created resolves to
\* the source manifest's bytes with its config and layer blobs in place.
C10_Original ==
    (~group /\ OneSupplied) =>
        /\ Terminated => phase = "returned"
        /\ NoListAnywhere
        /\ FinalTagsCarry(TRUE)

\* C10 amended: without grouping, exactly one platform that has a Source
\* Location at every destination registry makes the run succeed; no list is
\* published, and every final tag created resolves to the source manifest's
\* bytes with its config blob and non-foreign layer blobs in place.
C10_Amended ==
    (~group /\ OneSupplied /\ SuppliedEverywhere) =>
        /\ Terminated => phase = "returned"
        /\ NoListAnywhere
        /\ FinalTagsCarry(FALSE)

\* an ungrouped run of ppc64le alone, pushed to another repository, succeeded
\* and the final tag is in place at two destinations
C10_Witness ==
    /\ ~group
    /\ DOMAIN workers = {"ppc64le"}
    /\ Cardinality(registries) = 2
    /\ worker_repo = "worker-build"
    /\ phase = "returned"
    /\ \A r \in registries : "2.4" \in DOMAIN repos[r]["namespace/httpd"].tags
    /\ result.bytes = SourceBytes(REGISTRY_V2, "ppc64le")

\* the floating tags of a destination registry that exist
FloatingTagsAt(r) ==
    {i \in 1..Len(tag_conf.floating) :
        tag_conf.floating[i].tag \in DOMAIN repos[r][tag_conf.floating[i].repo].tags}

\* C11: in no reachable state does a floating tag of any destination resolve
\* to a manifest list, and during a run with grouping disabled no floating tag
\* exists at any destination repository (none exists before the first run).
C11_FloatingTags ==
    /\ \A r \in registries : \A i \in 1..Len(tag_conf.floating) :
            LET image == tag_conf.floating[i]
            IN  image.tag \notin ListTags(repos[r][image.repo])
    /\ ~group => \A r \in registries : FloatingTagsAt(r) = {}

\* a grouped run published a two-entry list under the unique tag at two
\* destinations while a floating tag was configured for the same repository
C11_Witness ==
    /\ phase = "returned"
    /\ group
    /\ Cardinality(registries) = 2
    /\ Len(tag_conf.floating) = 1
    /\ \A r \in registries :
            /\ "2.4" \in ListTags(repos[r][tag_conf.floating[1].repo])
            /\ FloatingTagsAt(r) = {}
    /\ Len(json_loads(result.bytes).manifests) = 2

\* the repositories of the final images
DestinationRepos == {non_floating_images[k].repo : k \in 1..Len(non_floating_images)}

\* the source tag of a platform at a registry is bound as before the first run,
\* to a manifest of the same bytes
SourceTagKept(r, p) ==
    LET before == initial_repos[r][worker_repo]
        now == repos[r][worker_repo]
        t == WorkerTag(p)
    IN  /\ t \in DOMAIN now.tags
        /\ now.tags[t] = before.tags[t]
        /\ now.tags[t] \in DOMAIN now.manifests
        /\ now.manifests[now.tags[t]] = before.manifests[before.tags[t]]

\* C12: every write request of the aggregator names a configured destination
\* registry and the repository of a final image; every other repository is as
\* it was before the first run; every source tag of a Source Location resolves
\* to the digest and bytes it had before, also when the workers pushed to the
\* destination repository itself.
C12_WriteFrame ==
    /\ \A c \in calls :
            c.op \in WriteOps =>
                c.registry \in registries /\ c.repository \in DestinationRepos
    /\ \A r \in registries : \A name \in Repositories \ DestinationRepos :
            repos[r][name] = initial_repos[r][name]
    /\ \A r \in registries : \A p \in DOMAIN workers :
            Supplied(p, r) => SourceTagKept(r, p)

\* a grouped run of two platforms succeeded whose sources lie in the
\* destination repository: that repository gained the final tag and the list
\* next to the two source tags
C12_Witness ==
    /\ phase = "returned"
    /\ group
    /\ worker_repo \in DestinationRepos
    /\ Cardinality(all_platforms) = 2
    /\ \A r \in registries :
            /\ DOMAIN repos[r][worker_repo].tags =
                    {WorkerTag(p) : p \in all_platforms} \cup {"2.4"}
            /\ repos[r][worker_repo] # initial_repos[r][worker_repo]
            /\ \E c \in calls : c.op = "putManifest" /\ c.registry = r
                                  /\ c.repository = worker_repo

\* a stored manifest has its config and non-foreign layer blobs next to it
Backed(repo, d) ==
    /\ d \in DOMAIN repo.manifests
    /\ NeededBlobs(repo.manifests[d]) \subseteq DOMAIN repo.blobs

\* every final tag of a destination registry resolves to a complete artifact:
\* a list of one backed entry per platform, or one backed manifest
FullyWritten(r) ==
    \A k \in 1..Len(non_floating_images) :
        LET image == non_floating_images[k]
            repo == repos[r][image.repo]
        IN  /\ image.tag \in DOMAIN repo.tags
            /\ repo.tags[image.tag] \in DOMAIN repo.manifests
            /\ LET bytes == repo.manifests[repo.tags[image.tag]]
               IN  IF group
                   THEN /\ IsList(bytes)
                        /\ Len(json_loads(bytes).manifests) = Cardinality(all_platforms)
                        /\ \A i \in 1..Len(json_loads(bytes).manifests) :
                                Backed(repo, json_loads(bytes).manifests[i].digest)
                   ELSE /\ ~IsList(bytes)
                        /\ Backed(repo, repo.tags[image.tag])

\* C13: when the run has returned, the result has a digest, a media type and
\* bytes; the digest is the hash of the bytes and the media type the one the
\* bytes declare; every final tag of the primary destination resolves to that
\* digest and to those bytes; and every configured destination is fully
\* written.
C13_AggregationResult ==
    phase = "returned" =>
        /\ DOMAIN result = {"digest", "mediaType", "bytes"}
        /\ "json" \in DOMAIN result.bytes
        /\ result.mediaType \in manifest_media_types
        /\ result.digest = digestOf(result.bytes)
        /\ result.mediaType = json_loads(result.bytes).mediaType
        /\ \A k \in 1..Len(non_floating_images) :
                LET image == non_floating_images[k]
                    repo == repos[primary_registry][image.repo]
                IN  /\ image.tag \in DOMAIN repo.tags
                    /\ repo.tags[image.tag] = result.digest
                    /\ result.digest \in DOMAIN repo.manifests
                    /\ repo.manifests[result.digest] = result.bytes
        /\ \A r \in registries : FullyWritten(r)

\* a grouped run over two destinations returned an OCI index as its result,
\* the second destination holding the final tag as well
C13_Witness ==
    /\ phase = "returned"
    /\ group
    /\ schema_version = "oci"
    /\ registries = {REGISTRY_V2, OTHER_V2}
    /\ result.mediaType = MEDIA_TYPE_OCI_V1_INDEX
    /\ result = w[primary_registry].published
    /\ "2.4" \in DOMAIN repos[OTHER_V2]["namespace/httpd"].tags

\* C14: in every step in which a destination writes a per-platform manifest,
\* the config blob and the non-foreign layer blobs of that manifest are already
\* in the destination repository; in every step in which it writes a list under
\* a final tag, the manifest of every required platform is already stored in
\* the destination repository, with its blobs.
C14_Ordering ==
    [][\A r \in registries :
          /\ (w[r].pc = "store" /\ w'[r] # w[r]) =>
                NeededBlobs(w[r].fetched.bytes) \subseteq
                    DOMAIN repos[r][target_repo(r)].blobs
          /\ (w[r].pc = "publish" /\ w'[r] # w[r] /\ group) =>
                \A p \in all_platforms :
                    Backed(repos[r][target_repo(r)], sources[r][p].digest)
      ]_vars

\* a destination is about to write the list of two platforms whose manifests
\* and blobs it brought over from the workers' repository
C14_Witness ==
    /\ group
    /\ worker_repo = "worker-build"
    /\ \E r \in registries :
            /\ w[r].pc = "publish"
            /\ Len(w[r].entries) = 2
            /\ \A p \in all_platforms :
                    /\ Backed(repos[r][target_repo(r)], sources[r][p].digest)
                    /\ ~Backed(initial_repos[r][target_repo(r)], sources[r][p].digest)
            /\ "2.4" \notin DOMAIN repos[r][target_repo(r)].tags

\* a destination that has steps left to do
InFlight(q) ==
    phase = "replicate" /\ w[q].pc \in {"fetch", "probe", "blobs", "store", "publish"}

\* the next step of one destination
WorkerStep(q) ==
    \/ Fetch(q)
    \/ Probe(q)
    \/ CopyBlob(q)
    \/ StoreManifest(q)
    \/ Publish(q)

\* a step takes nothing away from a registry: tags, manifests and blobs stay
NoRollback(r) ==
    \A name \in Repositories :
        LET before == repos[r][name]
            after == repos'[r][name]
        IN  /\ \A t \in DOMAIN before.tags :
                    t \in DOMAIN after.tags /\ after.tags[t] = before.tags[t]
            /\ \A d \in DOMAIN before.manifests :
                    d \in DOMAIN after.manifests /\
                    after.manifests[d] = before.manifests[d]
            /\ \A d \in DOMAIN before.blobs :
                    d \in DOMAIN after.blobs /\ after.blobs[d] = before.blobs[d]

\* C15: once a destination has failed, no step changes its registry and no
\* further request goes to it; the step in which it fails leaves every other
\* destination's worker and registry as they are; no step removes a tag, a
\* manifest or a blob from any registry; and a destination that has steps
\* left can always take its next step, whatever has happened to the others.
C15_FailureIsolation ==
    /\ [][\A r \in registries :
              /\ w[r].pc = "failed" =>
                    /\ repos'[r] = repos[r]
                    /\ \A c \in calls' \ calls : c.registry # r
              /\ (w[r].pc # "failed" /\ w'[r].pc = "failed") =>
                    \A q \in registries \ {r} :
                        w'[q] = w[q] /\ repos'[q] = repos[q]
              /\ NoRollback(r)
          ]_vars
    /\ [](\A q \in registries : InFlight(q) => ENABLED WorkerStep(q))

\* one destination has failed on altered bytes after it had stored a
\* platform's manifest, which is still there; the other destination has
\* published its list although the run is not over
C15_Witness ==
    /\ phase = "replicate"
    /\ group
    /\ worker_repo = "worker-build"
    /\ \E r \in altered : \E q \in registries \ altered :
            /\ w[r].pc = "failed"
            /\ DOMAIN repos[r]["namespace/httpd"].manifests # {}
            /\ DOMAIN repos[r]["namespace/httpd"].tags = {}
            /\ w[q].pc = "done"
            /\ "2.4" \in ListTags(repos[q]["namespace/httpd"])

\* the blobs of one manifest brought into the target repository, in order
RECURSIVE CopyAll(_, _, _, _)
CopyAll(rr, target, refs, source_repo) ==
    IF refs = <<>> THEN rr
    ELSE LET mount == http_mount_blob(rr, target, Head(refs), source_repo)
             blob == http_get_blob(rr, source_repo, Head(refs))
             copied == IF mount.status = 201 THEN mount.repos
                       ELSE putBlob(mount.repos, target, Head(refs), blob.body)
         IN  CopyAll(copied, target, Tail(refs), source_repo)

\* what the fetch of a platform's source manifest returns
FetchedFrom(rr, r, p) ==
    getManifest(http_get_manifest(rr, sort_annotations[r][p].repository,
                                  sort_annotations[r][p].digest, manifest_media_types),
                r, sort_annotations[r][p].digest)

\* the platforms replicated into the target repository, one after another
RECURSIVE ReplicateAll(_, _, _, _)
ReplicateAll(rr, r, todo, target) ==
    IF todo = {} THEN rr
    ELSE LET p == CHOOSE x \in todo : TRUE
             src == sort_annotations[r][p]
             fetched == FetchedFrom(rr, r, p)
             refs == ToCopy(headManifest(rr, target, src.digest), fetched.bytes)
             copied == CopyAll(rr, target, refs, src.repository)
             stored == http_put_manifest(copied, target, src.digest, fetched.bytes)
         IN  ReplicateAll(stored.repos, r, todo \ {p}, target)

RECURSIVE EntriesOf(_, _, _)
EntriesOf(rr, r, todo) ==
    IF todo = {} THEN <<>>
    ELSE LET p == CHOOSE x \in todo : TRUE
         IN  <<Entry(p, FetchedFrom(rr, r, p))>> \o EntriesOf(rr, r, todo \ {p})

\* the final images published into a registry, one after another
RECURSIVE ProcessImages(_, _, _)
ProcessImages(rr, r, images) ==
    IF images = <<>> THEN rr
    ELSE LET image == Head(images)
             replicated == ReplicateAll(rr, r, all_platforms, image.repo)
             bytes == IF group THEN build_list(EntriesOf(rr, r, all_platforms))
                      ELSE FetchedFrom(rr, r, CHOOSE p \in all_platforms : TRUE).bytes
             put == http_put_manifest(replicated, image.repo, TagRef(image.tag), bytes)
         IN  ProcessImages(put.repos, r, Tail(images))

\* the content of a registry after the destinations were processed one after
\* another: the registries share nothing, so each is processed from its own
\* content at the start of the run
OneAfterAnother(r) ==
    IF InputsConsistent
    THEN ProcessImages(RunStartRepos[r], r, non_floating_images)
    ELSE RunStartRepos[r]

\* C16: when the run has ended, every destination whose registry answered
\* faithfully holds exactly the manifests, blobs and tag bindings that
\* processing the destinations one after another produces, whatever the
\* interleaving of the destinations' steps and the order of the platforms was;
\* and a step of one destination changes neither the worker nor the registry of
\* another.
C16_InterleavingIndependence ==
    /\ [](Terminated =>
            \A r \in registries \ altered : repos[r] = OneAfterAnother(r))
    /\ [][(phase = "replicate" /\ phase' = "replicate") =>
              \A r \in registries :
                  w'[r] # w[r] =>
                      \A q \in registries \ {r} :
                          w'[q] = w[q] /\ repos'[q] = repos[q]
          ]_vars

\* a grouped run of two platforms over two destinations has returned; one
\* destination processed ppc64le first, the other x86_64 first, and both hold
\* the same content
C16_Witness ==
    /\ phase = "returned"
    /\ group
    /\ worker_repo = "worker-build"
    /\ registries = {REGISTRY_V2, OTHER_V2}
    /\ Len(w[REGISTRY_V2].entries) = 2
    /\ Len(w[OTHER_V2].entries) = 2
    /\ w[REGISTRY_V2].entries[1] # w[OTHER_V2].entries[1]
    /\ repos[REGISTRY_V2] = repos[OTHER_V2]
    /\ repos[REGISTRY_V2] = OneAfterAnother(REGISTRY_V2)

\* C17: every invocation eventually reaches a terminal state; a terminal state
\* is either success, with a result and no fatal condition, or failure, with a
\* fatal condition and no result; and from a terminal state on nothing changes:
\* no further request is issued and no registry is written.
C17_Termination ==
    /\ <>Terminated
    /\ [](/\ phase = "returned" => (error = NoError /\ result # NoBytes)
          /\ phase = "failed" => (error # NoError /\ result = NoBytes))
    /\ [][Terminated => /\ phase' = phase
                        /\ calls' = calls
                        /\ repos' = repos
                        /\ error' = error
                        /\ result' = result]_vars

\* the run has ended in failure after both destinations failed on altered
\* bytes, each having issued requests
C17_Witness ==
    /\ phase = "failed"
    /\ registries = {REGISTRY_V2, OTHER_V2}
    /\ altered = registries
    /\ \A r \in registries :
            /\ w[r].pc = "failed"
            /\ \E c \in calls : c.registry = r
    /\ error.name = "DigestMismatchError"
    /\ result = NoBytes

\* the image-spec family of a media type
FamilyOf(media_type) ==
    IF media_type \in {MEDIA_TYPE_DOCKER_V2_SCHEMA2, MEDIA_TYPE_DOCKER_V2_MANIFEST_LIST}
    THEN "docker"
    ELSE IF media_type \in {MEDIA_TYPE_OCI_V1, MEDIA_TYPE_OCI_V1_INDEX}
    THEN "oci"
    ELSE "other"

\* the bytes the workers pushed
PushedManifests ==
    {json_dumps(WorkerManifest(p, schema_version, foreign_layers)) : p \in DOMAIN workers}

PushedDigest(p) ==
    make_digest(json_dumps(WorkerManifest(p, schema_version, foreign_layers)))

\* every entry of every stored list refers to the manifest of a platform that
\* the table maps, and carries the fixed OS and the mapped architecture
EntriesResolved ==
    \A r \in registries : \A name \in Repositories :
        \A d \in ListsOf(repos[r][name]) :
            LET list == json_loads(repos[r][name].manifests[d])
            IN  \A i \in 1..Len(list.manifests) :
                    \E p \in DOMAIN workers :
                        /\ list.manifests[i].digest = PushedDigest(p)
                        /\ Mapped(p)
                        /\ list.manifests[i].platform =
                                [os |-> "linux", architecture |-> goarch[p]]

\* no stored list has an entry for the manifest of the platform
NoListNames(p) ==
    \A r \in registries : \A name \in Repositories :
        \A d \in ListsOf(repos[r][name]) :
            LET list == json_loads(repos[r][name].manifests[d])
            IN  \A i \in 1..Len(list.manifests) :
                    list.manifests[i].digest # PushedDigest(p)

FailedUnknownPlatform ==
    phase = "failed" /\ error.name = "UnknownPlatformError"

\* C19 as stated: every list entry carries os 'linux' and the architecture the
\* table gives for its platform; a worker build for a platform without an
\* entry in the table makes the run fail with UnknownPlatformError, and no
\* list names that platform.
C19_Original ==
    /\ EntriesResolved
    /\ UnmappedPlatform \in DOMAIN workers =>
            /\ Terminated => FailedUnknownPlatform
            /\ NoListNames(UnmappedPlatform)

\* C19 amended: every list entry carries os 'linux' and the architecture the
\* table gives for its platform, and no list names a platform without an entry;
\* a grouped run whose platforms all have a Source Location at every
\* destination registry fails with UnknownPlatformError when one of them has no
\* entry; an ungrouped run of a single such platform, which builds no list
\* entry, succeeds.
C19_Amended ==
    /\ EntriesResolved
    /\ UnmappedPlatform \in DOMAIN workers =>
            /\ NoListNames(UnmappedPlatform)
            /\ (group /\ SuppliedEverywhere /\ Terminated) => FailedUnknownPlatform
            /\ (~group /\ SuppliedEverywhere /\ Terminated /\
                DOMAIN workers = {UnmappedPlatform}) => phase = "returned"

\* a grouped run of x86_64 and the unmapped platform has failed on the
\* unmapped one after a destination had stored manifests of both
C19_Witness ==
    /\ group
    /\ DOMAIN workers = {"x86_64", UnmappedPlatform}
    /\ worker_repo = "worker-build"
    /\ FailedUnknownPlatform
    /\ error.platform = UnmappedPlatform
    /\ \E r \in registries :
            /\ DOMAIN repos[r]["namespace/httpd"].manifests =
                    {PushedDigest("x86_64"), PushedDigest(UnmappedPlatform)}
            /\ DOMAIN repos[r]["namespace/httpd"].tags = {}

\* C20: a destination copies exactly the config blob and the non-foreign
\* layers of the fetched manifest; in every step in which it brings a blob
\* over, a mountBlob for the target repository has been issued; when the
\* registry refuses the mount, getBlob on the source repository and putBlob on
\* the target repository follow, and only then; either way the target
\* repository afterwards holds the blob with the bytes the source repository
\* has, the destination goes on, and no fatal condition is raised.
C20_MountThenFallback ==
    /\ [](\A r \in registries :
            w[r].pc = "blobs" =>
                {w[r].refs[i] : i \in 1..Len(w[r].refs)} \subseteq
                    NeededBlobs(w[r].fetched.bytes))
    /\ [][\A r \in registries :
              (w[r].pc = "blobs" /\ w'[r] # w[r]) =>
                  LET digest == Head(w[r].refs)
                      target == target_repo(r)
                      source_repo == sources[r][w[r].platform].repository
                      mount == Call("mountBlob", r, target, digest)
                      upload == {Call("getBlob", r, source_repo, digest),
                                 Call("putBlob", r, target, digest)}
                  IN  /\ mount \in calls'
                      /\ IF mount \in refused'
                         THEN upload \subseteq calls'
                         ELSE upload \cap calls' = {}
                      /\ digest \in DOMAIN repos'[r][target].blobs
                      /\ repos'[r][target].blobs[digest] =
                              repos[r][source_repo].blobs[digest]
                      /\ w'[r].pc \in {"blobs", "store"}
                      /\ error' = error
          ]_vars

\* a run has returned in which a destination had one blob of a manifest
\* mounted and the other, refused by the registry, uploaded; both are in the
\* destination repository
C20_Witness ==
    /\ phase = "returned"
    /\ worker_repo = "worker-build"
    /\ \E r \in registries : \E p \in all_platforms :
            LET refs == References(SourceBytes(r, p))
                target == "namespace/httpd"
            IN  /\ Call("mountBlob", r, target, refs[1]) \in refused
                /\ Call("putBlob", r, target, refs[1]) \in calls
                /\ Call("mountBlob", r, target, refs[2]) \in calls \ refused
                /\ Call("putBlob", r, target, refs[2]) \notin calls
                /\ {refs[1], refs[2]} \subseteq DOMAIN repos[r][target].blobs

\* the responses that are registry-reported conditions, not transport failures
Reported == {401, 403, 404}

\* C21 as stated: a call that ends with a not-found or an authentication
\* condition has made exactly one attempt.
C21_Original ==
    outcome \in {"NotFoundError", "AuthenticationError"} =>
        /\ Len(attempts) = 1
        /\ attempts[1] \in Reported

\* C21 amended: an attempt that receives a not-found or an authentication
\* response is the last attempt of its call, and the call ends at once with
\* the typed condition of that response, NotFoundError or AuthenticationError;
\* attempts that met transient failures may precede it.
C21_Amended ==
    \A i \in 1..Len(attempts) :
        attempts[i] \in Reported =>
            /\ i = Len(attempts)
            /\ outcome = IF attempts[i] = 404 THEN "NotFoundError"
                         ELSE "AuthenticationError"

\* a manifest was asked for under a tag the repository does not have; the
\* first attempt found the registry unavailable, the second was answered
\* not-found by the registry and ended the call
C21_Witness ==
    /\ request = Call("getManifest", REGISTRY_V2, "namespace/httpd", TagRef("2.4"))
    /\ http_get_manifest(repos[REGISTRY_V2], "namespace/httpd", TagRef("2.4"),
                         manifest_media_types) = NOT_FOUND
    /\ attempts = <<503, 404>>
    /\ outcome = "NotFoundError"

\* C22: a call makes at most MaxRetries + 1 attempts; every attempt but the
\* last met a transient failure; a GET or HEAD that meets a transient failure
\* is retried while retries are left; a call that was attempted more than once
\* is a GET, a HEAD or content-addressed, so a manifest PUT by tag is never
\* attempted twice; and a call whose last permitted attempt met a transient
\* failure ends with the fatal TransportError.
C22_BoundedRetries ==
    /\ Len(attempts) <= MaxRetries + 1
    /\ \A i \in 1..Len(attempts) - 1 : Transient(attempts[i])
    /\ Len(attempts) > 1 =>
            \/ Method[request.op] \in {"GET", "HEAD"}
            \/ startswith_sha256(request.ref)
    /\ (request.op = "putManifest" /\ ~startswith_sha256(request.ref)) =>
            Len(attempts) <= 1
    /\ (Len(attempts) > 0 /\ Transient(attempts[Len(attempts)])) =>
            IF Method[request.op] \in {"GET", "HEAD"} /\ Len(attempts) <= MaxRetries
            THEN outcome = "pending"
            ELSE IF Len(attempts) = MaxRetries + 1 \/ ~startswith_sha256(request.ref)
            THEN outcome = "TransportError"
            ELSE outcome = "pending"
    /\ outcome = "pending" => Len(attempts) <= MaxRetries

\* a manifest put by digest used all its retries on transient failures and
\* became fatal, the repository not holding the manifest
C22_Witness ==
    /\ request = Call("putManifest", REGISTRY_V2, "namespace/httpd",
                      make_digest(ClientBody))
    /\ Len(attempts) = MaxRetries + 1
    /\ \A i \in 1..Len(attempts) : Transient(attempts[i])
    /\ attempts[1] # attempts[2]
    /\ outcome = "TransportError"
    /\ make_digest(ClientBody) \notin
            DOMAIN repos[REGISTRY_V2]["namespace/httpd"].manifests

\* the destination repository of r holds the manifest the worker has fetched
AlreadyHeld(r) ==
    w[r].fetched.digest \in DOMAIN repos[r][target_repo(r)].manifests

\* the calls that move blobs
BlobCalls == {c \in calls : c.op \in {"getBlob", "mountBlob", "putBlob"}}

\* C23: a worker that is copying blobs copies them for a manifest its
\* destination repository does not hold; a worker about to store a manifest
\* finds every blob the manifest needs in the destination repository; and a
\* probe of a repository that already holds the manifest under its digest
\* leads straight to storing it, with the headManifest call as the only call
\* made and no repository changed.
C23_NoRedundantCopies ==
    [][\A r \in registries :
        /\ w[r].pc = "blobs" => ~AlreadyHeld(r)
        /\ w[r].pc = "store" =>
              NeededBlobs(w[r].fetched.bytes) \subseteq
                  DOMAIN repos[r][target_repo(r)].blobs
        /\ (w[r].pc = "probe" /\ w'[r] # w[r] /\ AlreadyHeld(r)) =>
              /\ w'[r].pc = "store"
              /\ w'[r].refs = <<>>
              /\ \A c \in calls' \ calls : c.op = "headManifest"
              /\ repos' = repos
        /\ w'[r].pc = "done" => FullyWritten(r)']_vars

\* the workers pushed to the destination repository itself: the run completed
\* at a registry without any blob call, and the artifact there is complete
C23_Witness ==
    /\ worker_repo = "namespace/httpd"
    /\ \E r \in registries :
          /\ w[r].pc = "done"
          /\ Cardinality(all_platforms) = 2
          /\ Call("headManifest", r, "namespace/httpd",
                  sources[r]["ppc64le"].digest) \in calls
          /\ FullyWritten(r)
    /\ BlobCalls = {}

\* the state_name values of a compose that is not finished
Unfinished == {"wait", "generating"}

\* C24: wait_for_compose returns only at a poll whose state_name is none of
\* 'wait', 'generating', 'failed'; a poll that reports 'failed' raises
\* RuntimeError at once and RuntimeError is raised by nothing else; a poll
\* that reports a finished state returns at once, whatever time has elapsed;
\* WaitComposeToFinishTimeout is raised only at a poll that reported 'wait'
\* or 'generating' with an elapsed time strictly greater than the timeout.
C24_WaitOutcomes ==
    [][(odcs.pc = "get" /\ odcs' # odcs) =>
        LET elapsed == clock' - odcs.start_time
        IN  /\ odcs'.pc = "returned" <=>
                  odcs'.state_name \in StateNames \ (Unfinished \cup {"failed"})
            /\ odcs'.exc = "RuntimeError" <=> odcs'.state_name = "failed"
            /\ odcs'.exc = "RuntimeError" => odcs'.pc = "raised"
            /\ odcs'.exc = "WaitComposeToFinishTimeout" =>
                  /\ odcs'.pc = "raised"
                  /\ odcs'.state_name \in Unfinished
                  /\ elapsed > odcs.timeout
            /\ odcs'.pc \in {"returned", "raised"}
                  \/ (odcs'.pc = "sleep" /\ odcs'.state_name \in Unfinished)]_vars
      /\ [][(odcs.pc # "get" /\ odcs.pc # "none") =>
               (odcs'.pc \in {"returned", "raised"} => odcs' = odcs)]_vars

\* a client with the longest timeout polled until the timeout had elapsed,
\* and the poll after it reported 'done': the status was returned
C24_Witness ==
    /\ odcs.pc = "returned"
    /\ odcs.state_name = "done"
    /\ odcs.timeout = MaxTimeout
    /\ clock - odcs.start_time > odcs.timeout
    /\ odcs.elapsed > burst_length

\* C25: every wait_for_compose ends, by a return or by an exception; while
\* the compose is reported unfinished the loop sleeps burst_retry seconds
\* when the elapsed time is at most burst_length and slow_retry seconds when
\* it is greater, the clock moving on by at least that interval; and the
\* first poll that reports an unfinished compose after the timeout was
\* exceeded raises WaitComposeToFinishTimeout.
C25_Terminates ==
    /\ <>(odcs.pc \in {"returned", "raised"})
    /\ [][/\ (odcs.pc = "get" /\ odcs' # odcs /\ odcs'.state_name \in Unfinished) =>
              LET elapsed == clock' - odcs.start_time
              IN  IF elapsed > odcs.timeout
                  THEN odcs'.exc = "WaitComposeToFinishTimeout"
                  ELSE /\ odcs'.pc = "sleep"
                       /\ elapsed <= burst_length => odcs'.interval = burst_retry
                       /\ elapsed > burst_length => odcs'.interval = slow_retry
           /\ (odcs.pc = "sleep" /\ odcs' # odcs) =>
              /\ odcs.interval >= 1
              /\ clock' - clock >= odcs.interval
              /\ odcs'.pc = "get"]_vars

\* the wait slept at both rates and ended with the timeout
C25_Witness ==
    /\ odcs.pc = "raised"
    /\ odcs.exc = "WaitComposeToFinishTimeout"
    /\ odcs.timeout = MaxTimeout
    /\ odcs.interval = slow_retry
    /\ odcs.elapsed > MaxTimeout

\* C26: cancel_compose returns for every outcome of the DELETE request, a
\* failed one having logged a warning: every compose whose cancellation
\* failed was warned about, the caller stops only after it has gone through
\* every compose in progress, and the error it reports is the one
\* wait_for_compose raised.
C26_CancelNeverRaises ==
    caller.pc \in {"cancelling", "failed"} =>
        /\ caller.warned = caller.failed
        /\ caller.error = odcs.exc
        /\ (caller.pc = "failed" /\ odcs.exc = "WaitComposeToFinishTimeout") =>
              caller.in_progress = {}

\* both cancellations failed and the caller reported the timeout
C26_Witness ==
    /\ caller.pc = "failed"
    /\ caller.failed = in_progress
    /\ caller.warned = in_progress
    /\ caller.in_progress = {}
    /\ caller.error = "WaitComposeToFinishTimeout"

\* the order of signing intents: unsigned < beta < release
Strength == [unsigned |-> 0, beta |-> 1, release |-> 2]

Weaker(a, b) == IF Strength[a] <= Strength[b] THEN a ELSE b

\* the intent whose keys a compose was signed with
IntentOf(sigkeys) ==
    CHOOSE name \in DOMAIN SIGNING_INTENTS : SIGNING_INTENTS[name] = sigkeys

\* the weakest intent among composes
Weakest(composes) ==
    CHOOSE name \in {IntentOf(composes[i]) : i \in 1..Len(composes)} :
        \A i \in 1..Len(composes) : Strength[name] <= Strength[IntentOf(composes[i])]

\* the argument if given, otherwise the repository value, otherwise the default
Configured ==
    IF intent.arg_si # None THEN intent.arg_si
    ELSE IF intent.config_si # None THEN intent.config_si
    ELSE intent.default_si

CappedByParent(requested) ==
    IF intent.parent_si # None THEN Weaker(requested, intent.parent_si) ELSE requested

\* C27 as stated: the result is never stronger than the parent's intent; it is
\* the weaker of the configured intent and the parent's intent; with several
\* pre-existing composes it is the weakest intent among them.
C27_Original ==
    intent.pc = "done" =>
        /\ intent.parent_si # None =>
              Strength[intent.result] <= Strength[intent.parent_si]
        /\ IF Len(intent.composes) > 1
           THEN intent.result = Weakest(intent.composes)
           ELSE intent.result = CappedByParent(Configured)

\* C27 amended: the result is never stronger than the parent's intent; without
\* pre-existing composes it is the weaker of the configured intent and the
\* parent's intent; with pre-existing composes, one or several, the weakest
\* intent among the composes takes the place of the configured intent.
C27_Amended ==
    intent.pc = "done" =>
        /\ intent.parent_si # None =>
              Strength[intent.result] <= Strength[intent.parent_si]
        /\ IF intent.composes # <<>>
           THEN intent.result = CappedByParent(Weakest(intent.composes))
           ELSE intent.result = CappedByParent(Configured)

\* a pre-existing compose signed with the 'release' keys was given to a build
\* whose repository asks for 'beta' and whose parent is 'release': the result
\* is the compose's intent
C27_Witness ==
    /\ intent.pc = "done"
    /\ intent.test = "adjust"
    /\ intent.composes = <<SIGNING_INTENTS["release"]>>
    /\ intent.arg_si = None
    /\ intent.config_si = "beta"
    /\ intent.parent_si = "release"
    /\ intent.result = "release"

\* the positions of a stream whose items are JSON objects
ObjectItems(stream) ==
    {i \in 1..Len(stream) : stream[i].json /\ stream[i].dict = TRUE}

\* the last JSON object of a stream that has one
LastObject(stream) ==
    stream[CHOOSE i \in ObjectItems(stream) : \A j \in ObjectItems(stream) : j <= i].object

LoadsExported ==
    workflow.load_exported_image /\ workflow.exported_before # <<>>

\* C29: after CompressPlugin.run the sequence of exported images is the
\* sequence before the run, or that sequence with one entry after it; it is
\* unchanged for a scratch build, for a source build with no exported image
\* to load, and for a method other than gzip and lzma, which raises
\* RuntimeError; in every other run the entry added names the compressed
\* file and has the type of the last exported image when that image was
\* loaded, the docker archive type otherwise.
C29_AtMostOneEntry ==
    workflow.pc \in {"returned", "raised"} =>
        LET before == workflow.exported_before
            after == workflow.exported_image_sequence
            skipped == \/ workflow.scratch
                       \/ ~LoadsExported /\ workflow.source_build
            unsupported == ~skipped /\ workflow.method \notin {"gzip", "lzma"}
        IN  /\ Len(after) \in {Len(before), Len(before) + 1}
            /\ SubSeq(after, 1, Len(before)) = before
            /\ skipped => after = before /\ workflow.pc = "returned"
            /\ unsupported => after = before /\ workflow.exc = "RuntimeError"
            /\ workflow.pc = "raised" <=> unsupported
            /\ (~skipped /\ ~unsupported) =>
                  /\ Len(after) = Len(before) + 1
                  /\ after[Len(after)].path \in
                        {"workdir/compressed.tar.gz", "workdir/compressed.tar.xz"}
                  /\ after[Len(after)].type =
                        IF LoadsExported THEN before[Len(before)].type
                        ELSE "docker-archive"

\* a source build loaded the last of two exported images, an OCI image that
\* follows a docker archive, and its compressed file became the third entry
C29_Witness ==
    /\ workflow.pc = "returned"
    /\ workflow.source_build
    /\ workflow.load_exported_image
    /\ Len(workflow.exported_before) = MaxExported
    /\ workflow.exported_before[1].type = "docker-archive"
    /\ workflow.exported_before[MaxExported].type = "oci"
    /\ Len(workflow.exported_image_sequence) = MaxExported + 1
    /\ workflow.exported_image_sequence[MaxExported + 1].type = "oci"
    /\ workflow.exported_image_sequence[MaxExported + 1].path = "workdir/compressed.tar.xz"

\* a name was printed with the default arguments and parsed back
PrintedAndParsed ==
    /\ imagename.pc = "done"
    /\ imagename.origin = "name"
    /\ imagename.flags = DefaultFlags

\* a text was parsed and printed back with the default arguments
ParsedAndPrinted ==
    /\ imagename.pc = "done"
    /\ imagename.origin = "text"
    /\ imagename.flags = DefaultFlags

\* the text names the namespace 'library', after a registry or first
NamesLibrary(text) ==
    LET s == split(text, 2)
    IN  \/ Len(s) = 3 /\ s[2] = <<"library">>
        \/ Len(s) = 2 /\ s[1] = <<"library">>

\* the text without its 'library/' component
WithoutLibrary(text) ==
    LET s == split(text, 2)
    IN  IF Len(s) = 3 THEN s[1] \o <<"/">> \o s[3] ELSE s[2]

\* the conditions C30 puts on a name
Stated(n) ==
    /\ n.repo # Unset /\ n.repo # <<>>
    /\ n.namespace # <<"library">>
    /\ n.registry # Unset =>
          \/ Contains(n.registry, ".") \/ Contains(n.registry, ":")
          \/ n.namespace # Unset

\* C30 as stated: a name with a non-empty repo, a namespace other than
\* 'library' and a registry that, if set, contains '.' or ':' or comes with a
\* namespace, is parsed back from its text as it was; and the text printed
\* for a parsed text that names the namespace 'library' is that text without
\* its 'library/' component.
C30_Original ==
    /\ (PrintedAndParsed /\ Stated(imagename.given)) =>
          imagename.name = imagename.given
    /\ (ParsedAndPrinted /\ NamesLibrary(imagename.given)) =>
          imagename.str = WithoutLibrary(imagename.given)

\* a field that is set is not empty and holds no '/'
Plain(field) == field # Unset => (field # <<>> /\ ~Contains(field, "/"))

\* the conditions under which a name survives printing and parsing
WellFormed(n) ==
    /\ Stated(n)
    /\ Plain(n.registry) /\ Plain(n.namespace) /\ Plain(n.repo) /\ Plain(n.tag)
    /\ ~Contains(n.repo, ":")
    /\ n.tag # Unset => ~Contains(n.tag, ":")
    /\ (n.registry = Unset /\ n.namespace # Unset) =>
          ~(Contains(n.namespace, ".") \/ Contains(n.namespace, ":"))

\* C30 amended: a name whose set fields are non-empty and hold no '/', whose
\* repo and tag hold no ':', whose namespace is not 'library' and, when no
\* registry is set, holds neither '.' nor ':', and whose registry, if set,
\* contains '.' or ':' or comes with a namespace, is parsed back from its
\* text as it was; and the text printed for a parsed text that names the
\* namespace 'library' and whose other components are not empty is that
\* text without its 'library/' component.
C30_Amended ==
    /\ (PrintedAndParsed /\ WellFormed(imagename.given)) =>
          imagename.name = imagename.given
    /\ ( /\ ParsedAndPrinted
         /\ NamesLibrary(imagename.given)
         /\ \A i \in 1..Len(split(imagename.given, 2)) :
               split(imagename.given, 2)[i] # <<>>
         /\ imagename.given[Len(imagename.given)] # ":" ) =>
          /\ imagename.name.namespace = Unset
          /\ imagename.str = WithoutLibrary(imagename.given)

\* a name with a registry that has a port, no namespace and a tag came back
\* as it was
C30_Witness ==
    /\ PrintedAndParsed
    /\ imagename.given = ImageName(<<"localhost", ":", "5000">>, Unset,
                                   <<"httpd">>, <<"2.4">>)
    /\ imagename.str = <<"localhost", ":", "5000", "/", "httpd", ":", "2.4">>
    /\ imagename.name = imagename.given

====
